---- MODULE Spec2Model ----
(***************************************************************************)
(* gif2esp: GIF frame compositor, resampler, monochrome quantizer/packer   *)
(* for page-addressed displays, and the PackBits-style RLE codec whose     *)
(* decoder is emitted into the generated C header.                         *)
(***************************************************************************)
EXTENDS Integers, Sequences, FiniteSets, TLC

VARIABLES
    pc,         \* position of the component under analysis
    mode,       \* "rt": decode compressRLE(data); "raw": decode an arbitrary stream
    data,       \* compressRLE: the input bytes
    i,          \* compressRLE: scan position
    output,     \* compressRLE: the emitted bytes
    encBroke,   \* compressRLE: the "safety break" branch was taken
    val,        \* _unpack: the encoded stream
    bufferLen,  \* _unpack: declared output length
    buffer,     \* _unpack: the output buffer
    bufIdx,     \* _unpack: uint16_t write index
    valIdx,     \* _unpack: uint16_t read index
    header,     \* _unpack: current record header
    count,      \* _unpack: current record length
    k,          \* _unpack: inner loop counter
    value,      \* _unpack: the byte of a repeat record
    lastWrite,  \* _unpack: index of the latest write to buffer (-1: none yet)
    lastRead,   \* _unpack: index of the latest read of val (-1: none yet)
    gifWidth,   \* extractComposedFrames: canvas width
    gifHeight,  \* extractComposedFrames: canvas height
    rawCount,   \* extractComposedFrames: rawFrames.length
    rawFrames,  \* extractComposedFrames: the patch frames consumed so far
    canvas,     \* extractComposedFrames: the running canvas (ctx)
    frames,     \* extractComposedFrames: the bitmaps emitted so far
    befores,    \* the canvas as it was before each consumed patch was drawn
    sourceFrames, \* GifConverter: the composed frames of the dropped file
    screenWidth,  \* the dropped GIF: width of its logical screen (0: no GIF)
    screenHeight, \* the dropped GIF: height of its logical screen
    gifFrames,  \* onDrop: the patch frames loadGifFrames returned
    frameImageData, \* processFrame: the source bitmap
    options,    \* processFrame: width, height, threshold, invert, dither, fit
    targetData, \* processFrame: the resampled bitmap, then the preview
    grayBuffer, \* processFrame: the Float32Array of luminances
    ssd1306Buffer, \* processFrame: the packed frame
    idx,        \* processFrame: pixel index y * width + x of the quantizer loop
    processedFrames, \* GifConverter: what processFrame returned per source frame
    drops,      \* GifConverter: the calls of onDrop, each with its file and position
    file,       \* GifConverter: the file shown as dropped
    loading,    \* GifConverter: the loading flag
    timer,      \* GifConverter: the pending debounce timer and what its callback sees
    code,       \* GifConverter: the generated header
    generated,  \* GifConverter: the generated flag
    varName,    \* GifConverter: the variable name setting
    useCompression, \* GifConverter: the compression setting
    fps,        \* GifConverter: the frame rate setting
    rendered,   \* GifConverter: the state of the latest render, which the callbacks made by it see
    fresh,      \* GifConverter: the arrays set since the latest render
    passive,    \* GifConverter: the effects of the latest render that have not run yet
    edits       \* the changes of a setting the user has made

rleVars == <<mode, data, i, output, encBroke, val, bufferLen, buffer, bufIdx,
             valIdx, header, count, k, value, lastWrite, lastRead>>

uiVars == <<drops, file, loading, timer, code, generated, varName,
            useCompression, fps, rendered, fresh, passive, edits>>

compVars == <<gifWidth, gifHeight, rawCount, rawFrames, canvas, frames,
              befores, sourceFrames, screenWidth, screenHeight, gifFrames,
              uiVars>>

frameVars == <<frameImageData, options, targetData, grayBuffer, ssd1306Buffer,
               idx, processedFrames>>

vars == <<pc, rleVars, compVars, frameVars>>

(***************************************************************************)
(* Bounds of the model.                                                    *)
(***************************************************************************)
\* exhaustive short inputs of compressRLE: every sequence up to this length
MaxLen == 5
\* long inputs: free bytes before and after a long run or literal stretch
MaxPad == 2
\* long inputs: the body is up to this many bytes longer than the run cap
MaxOver == 2
\* arbitrary streams handed to the decoder: length and declared output length
MaxStream == 2
MaxBufLen == 4
\* reads past the end of a stream: the runs of the decoder on the streams of
\* one length and one declared output length differ in the bytes read there,
\* and number at most MaxJunkRuns
MaxJunkRuns == 70000
\* canvases of the compositor: width and height up to MaxGif
MaxGif == 2
\* patch frames per animation: up to MaxFrames, and no more than keep the
\* number of animations on one canvas within MaxAnimations
MaxFrames == 3
MaxAnimations == 100000
\* canvases of the pipeline: at most SmallArea pixels; its animations on one
\* canvas, times its settings, number at most MaxRuns
SmallArea == 2
MaxRuns == 12000
\* source bitmaps of processFrame: width and height 2^e for e up to MaxSrcExp
MaxSrcExp == 1
\* targets of processFrame: width up to MaxW, height up to MaxH
MaxW == 3
MaxH == 9
\* source bitmaps with every pixel free over the palette: up to this many pixels
MaxPalettePixels == 2
\* dithering is followed on targets of up to MaxDitherPixels pixels
MaxDitherPixels == 8
\* one-pixel-wide source columns of any height up to MaxColumnSrc, resampled
\* to one-pixel-wide targets of any height up to MaxColumnTarget
MaxColumnSrc == 11
MaxColumnTarget == 15
\* target width and height of processAllFrames: up to MaxSetting
MaxSetting == 2
\* the converter: the user has MaxFiles files and drops a file at most
\* MaxDrops times
MaxFiles == 2
MaxDrops == 2
\* the converter: the user changes a setting at most MaxEdits times
MaxEdits == 2
\* frames near the 16-bit limit: up to MaxShort bytes shorter than the largest
MaxShort == 0

(***************************************************************************)
(* Program constants of the codec.                                         *)
(***************************************************************************)
RunCap == 130
LitCap == 128
MinRun == 3
RepeatBase == 128
Uint16 == 65536

\* content of an output cell the decoder has not written
Unset == -1

SeqsUpTo(S, n) == UNION {[1..m -> S] : m \in 0..n}

\* base ^ n <= budget
RECURSIVE PowerWithin(_, _, _)
PowerWithin(base, n, budget) ==
    \/ n = 0
    \/ (base <= budget /\ PowerWithin(base, n - 1, budget \div base))

(***************************************************************************)
(* compressRLE                                                             *)
(***************************************************************************)
\* condition of the inner while of the run search, capped at 130
RunContinues(d, pos, runLen) ==
    pos + runLen < Len(d) /\ runLen < RunCap /\ d[pos + runLen + 1] = d[pos + 1]

\* let runLen = 1; while (...) runLen++: the first runLen, counting up from
\* `from`, at which the loop condition fails
RunScan(d, pos, from) ==
    CHOOSE runLen \in from..RunCap :
        /\ ~RunContinues(d, pos, runLen)
        /\ \A r \in from..(runLen - 1) : RunContinues(d, pos, r)

\* a lookahead that stops the literal scan at a run of two already
RunOfTwoAt(d, p) ==
    /\ p + 1 < Len(d)
    /\ d[p + 1] = d[p + 2]

\* the lookahead of the literal scan: a run of three starts at position p
RunOfThreeAt(d, p) ==
    /\ p + 2 < Len(d)
    /\ d[p + 1] = d[p + 2]
    /\ d[p + 1] = d[p + 3]

\* a literal scan without the lookahead: it stops at 128 bytes or at the end
LitContinuesToCap(d, pos, litLen) ==
    pos + litLen < Len(d) /\ litLen < LitCap

\* the literal scan goes on at litLen: below 128 bytes, inside the input and
\* not at the start of a run of 3
LitContinues(d, pos, litLen) ==
    /\ pos + litLen < Len(d) /\ litLen < LitCap
    /\ ~RunOfThreeAt(d, pos + litLen)

\* a literal scan that takes a single byte per record
LitScanSingle(d, pos, from) == from + 1

\* let litLen = 0; while (...) { if (...) break; litLen++ }: the first litLen,
\* counting up from `from`, at which the scan stops
LitScan(d, pos, from) ==
    CHOOSE litLen \in from..LitCap :
        /\ ~LitContinues(d, pos, litLen)
        /\ \A l \in from..(litLen - 1) : LitContinues(d, pos, l)

\* a repeat header that forgets the bias of 3
RepeatHeaderNoBias(runLen) == RepeatBase + runLen

\* header byte of a repeat record
RepeatHeader(runLen) == RepeatBase + (runLen - MinRun)

\* header byte of a literal record
LiteralHeader(litLen) == litLen - 1

\* a branch that encodes a run of two as a repeat record
IsRunOfTwo(runLen) == runLen >= 2

\* the branch on the measured run
IsRun(runLen) == runLen >= MinRun

\* One iteration of the outer while loop.
EncStep ==
    /\ pc = "enc"
    /\ i < Len(data)
    /\ ~encBroke
    /\ LET runLen == RunScan(data, i, 1)
           litLen == LitScan(data, i, 0)
       IN IF IsRun(runLen)
          THEN /\ output' = output \o <<RepeatHeader(runLen), data[i + 1]>>
               /\ i' = i + runLen
               /\ encBroke' = encBroke
          ELSE IF litLen > 0
          THEN /\ output' = output \o <<LiteralHeader(litLen)>>
                                   \o SubSeq(data, i + 1, i + litLen)
               /\ i' = i + litLen
               /\ encBroke' = encBroke
          ELSE /\ encBroke' = TRUE
               /\ UNCHANGED <<output, i>>
    /\ UNCHANGED <<pc, mode, data, val, bufferLen, buffer, bufIdx, valIdx,
                   header, count, k, value, lastWrite, lastRead>>
    /\ UNCHANGED <<compVars, frameVars>>

\* compressRLE returns; the firmware calls _unpack on the frame with the
\* packed frame's size as bufferLen.
EncReturn ==
    /\ pc = "enc"
    /\ (i >= Len(data) \/ encBroke)
    /\ val' = output
    /\ bufferLen' = Len(data)
    /\ buffer' = [j \in 1..Len(data) |-> Unset]
    /\ pc' = "dec_hdr"
    /\ UNCHANGED <<mode, data, i, output, encBroke, bufIdx, valIdx, header,
                   count, k, value, lastWrite, lastRead>>
    /\ UNCHANGED <<compVars, frameVars>>

(***************************************************************************)
(* The emitted decoder, <variableName>_unpack                              *)
(***************************************************************************)
\* a read past the end of val returns whatever lies behind the array: any
\* byte
JunkBytes == 0..255

\* val[at]: past the end of the stream the read is undefined behaviour, and
\* each such read returns a byte of its own
ReadVal(at) == IF at < Len(val) THEN {val[at + 1]} ELSE JunkBytes

\* x++ on a uint16_t
Inc16(x) == (x + 1) % Uint16

\* a write guard that is off by one
CanWriteInclusive(at, len) == at <= len

\* the guard in front of every write to buffer
CanWrite(at, len) == at < len

\* buffer[at] = b; a write outside the buffer lands in memory not modelled
Store(buf, at, b) == IF at < Len(buf) THEN [buf EXCEPT ![at + 1] = b] ELSE buf

\* literal run: copy header+1 bytes
LiteralCount(h) == h + 1

\* a repeat count that forgets the bias of 3
RepeatCountNoBias(h) == h - RepeatBase

\* repeat run: (header-128)+3 bytes
RepeatCount(h) == (h - RepeatBase) + MinRun

\* while (bufIdx < bufferLen) { uint8_t header = val[valIdx++]; ...
DecHeader ==
    /\ pc = "dec_hdr"
    /\ bufIdx < bufferLen
    /\ \E h \in ReadVal(valIdx) :
         /\ header' = h
         /\ IF h < RepeatBase
            THEN /\ count' = LiteralCount(h)
                 /\ k' = 0
                 /\ pc' = "dec_lit"
            ELSE /\ count' = RepeatCount(h)
                 /\ k' = k
                 /\ pc' = "dec_val"
    /\ lastRead' = valIdx
    /\ valIdx' = Inc16(valIdx)
    /\ UNCHANGED <<mode, data, i, output, encBroke, val, bufferLen, buffer,
                   bufIdx, value, lastWrite>>
    /\ UNCHANGED <<compVars, frameVars>>

\* the while condition fails: _unpack returns
DecExit ==
    /\ pc = "dec_hdr"
    /\ ~(bufIdx < bufferLen)
    /\ pc' = "done"
    /\ UNCHANGED <<rleVars, compVars, frameVars>>

\* uint8_t value = val[valIdx++];
DecValue ==
    /\ pc = "dec_val"
    /\ \E b \in ReadVal(valIdx) : value' = b
    /\ lastRead' = valIdx
    /\ valIdx' = Inc16(valIdx)
    /\ k' = 0
    /\ pc' = "dec_rep"
    /\ UNCHANGED <<mode, data, i, output, encBroke, val, bufferLen, buffer,
                   bufIdx, header, count, lastWrite>>
    /\ UNCHANGED <<compVars, frameVars>>

\* one iteration of the literal copy loop
DecLit ==
    /\ pc = "dec_lit"
    /\ k < count
    /\ IF CanWrite(bufIdx, bufferLen)
       THEN /\ \E b \in ReadVal(valIdx) : buffer' = Store(buffer, bufIdx, b)
            /\ lastWrite' = bufIdx
            /\ lastRead' = valIdx
            /\ bufIdx' = Inc16(bufIdx)
            /\ valIdx' = Inc16(valIdx)
       ELSE UNCHANGED <<buffer, lastWrite, lastRead, bufIdx, valIdx>>
    /\ k' = k + 1
    /\ UNCHANGED <<pc, mode, data, i, output, encBroke, val, bufferLen,
                   header, count, value>>
    /\ UNCHANGED <<compVars, frameVars>>

\* one iteration of the repeat loop
DecRep ==
    /\ pc = "dec_rep"
    /\ k < count
    /\ IF CanWrite(bufIdx, bufferLen)
       THEN /\ buffer' = Store(buffer, bufIdx, value)
            /\ lastWrite' = bufIdx
            /\ bufIdx' = Inc16(bufIdx)
       ELSE UNCHANGED <<buffer, lastWrite, bufIdx>>
    /\ k' = k + 1
    /\ UNCHANGED <<pc, mode, data, i, output, encBroke, val, bufferLen,
                   valIdx, header, count, value, lastRead>>
    /\ UNCHANGED <<compVars, frameVars>>

\* the inner for loop ends: back to the while condition
DecLoopEnd ==
    /\ pc \in {"dec_lit", "dec_rep"}
    /\ ~(k < count)
    /\ pc' = "dec_hdr"
    /\ UNCHANGED <<rleVars, compVars, frameVars>>

\* val[at] of a read inside the stream
ReadIn(v, at) == IF at < Len(v) THEN v[at + 1] ELSE Unset

\* the read of val[at] is a read past the end of the stream
PastEnd(v, at) == ~(at < Len(v))

\* uint16_t bufIdx = 0; uint16_t valIdx = 0; reads counts the reads of val,
\* over tells whether one of them was past the end of the stream
UnpackStart(len) ==
    [bufIdx |-> 0, valIdx |-> 0, buffer |-> [j \in 1..len |-> Unset] \o <<>>,
     header |-> 0, count |-> 0, k |-> 0, value |-> 0,
     lastWrite |-> -1, lastRead |-> -1, reads |-> 0, over |-> FALSE]

\* the writes of one record: the guard lets through the first `room` of them
Written(recordLen, room) == IF recordLen < room THEN recordLen ELSE room

\* buffer[at], buffer[at + 1], ... = the bytes of chunk
StoreAll(buf, at, chunk) ==
    SubSeq(buf, 1, at) \o chunk \o SubSeq(buf, at + Len(chunk) + 1, Len(buf))

\* a literal record with header h on the decoder state st: header+1 turns of
\* the for loop, of which the first m pass the guard and copy val[valIdx++]
UnpackLiteral(v, len, st, h, m) ==
    [bufIdx |-> (st.bufIdx + m) % Uint16,
     valIdx |-> (st.valIdx + 1 + m) % Uint16,
     buffer |-> StoreAll(st.buffer, st.bufIdx,
                         [t \in 1..m |-> ReadIn(v, (st.valIdx + t) % Uint16)]),
     header |-> h, count |-> LiteralCount(h), k |-> LiteralCount(h),
     value |-> st.value,
     lastWrite |-> st.bufIdx + m - 1,
     lastRead |-> (st.valIdx + m) % Uint16,
     reads |-> st.reads + 1 + m,
     over |-> st.over \/ \E t \in 0..m : PastEnd(v, (st.valIdx + t) % Uint16)]

\* a repeat record with header h on the decoder state st: the value is read,
\* then (header-128)+3 turns of the for loop, of which the first m pass the
\* guard and store the value
UnpackRepeat(v, len, st, h, m) ==
    [bufIdx |-> (st.bufIdx + m) % Uint16,
     valIdx |-> (st.valIdx + 2) % Uint16,
     buffer |-> StoreAll(st.buffer, st.bufIdx,
                         [t \in 1..m |-> ReadIn(v, Inc16(st.valIdx))]),
     header |-> h, count |-> RepeatCount(h), k |-> RepeatCount(h),
     value |-> ReadIn(v, Inc16(st.valIdx)),
     lastWrite |-> st.bufIdx + m - 1,
     lastRead |-> Inc16(st.valIdx),
     reads |-> st.reads + 2,
     over |-> st.over \/ PastEnd(v, st.valIdx) \/ PastEnd(v, Inc16(st.valIdx))]

\* one iteration of the while loop of _unpack on the decoder state st (no
\* iteration once the loop has ended, none after a read past the end)
UnpackRecord(v, len, st) ==
    IF ~(st.bufIdx < len) \/ st.over
    THEN st
    ELSE IF PastEnd(v, st.valIdx)
    THEN [st EXCEPT !.over = TRUE]
    ELSE IF ReadIn(v, st.valIdx) < RepeatBase
    THEN UnpackLiteral(v, len, st, ReadIn(v, st.valIdx),
             Written(LiteralCount(ReadIn(v, st.valIdx)), len - st.bufIdx))
    ELSE UnpackRepeat(v, len, st, ReadIn(v, st.valIdx),
             Written(RepeatCount(ReadIn(v, st.valIdx)), len - st.bufIdx))

\* n iterations of the while loop, the second half on the state the first
\* half leaves
RECURSIVE UnpackRecords(_, _, _, _)
UnpackRecords(v, len, st, n) ==
    IF n = 0 THEN st
    ELSE IF n = 1 THEN UnpackRecord(v, len, st)
    ELSE CHOOSE r \in {UnpackRecords(v, len, half, n - (n \div 2)) :
                          half \in {UnpackRecords(v, len, st, n \div 2)}} : TRUE

\* the decoder state when _unpack returns, or at its first read past the end
\* of the stream: every record writes at least one byte, so len iterations
\* fill the buffer
UnpackEnd(v, len) == UnpackRecords(v, len, UnpackStart(len), len)

(***************************************************************************)
(* Inputs of the codec                                                     *)
(***************************************************************************)
\* byte values of the short inputs, and of the padding of the long ones
SmallBytes == {0, 1, 255}
PadBytes == {0, 255}

\* n bytes that alternate a, b, a, b, ...: no three consecutive equal bytes
Alternating(a, b, n) == [j \in 1..n |-> IF j % 2 = 1 THEN a ELSE b]

\* bodies around the caps: runs (a = b) and literal stretches (a # b) of
\* 127 .. RunCap + MaxOver bytes
LongBodies ==
    {Alternating(a, b, n) : a \in PadBytes, b \in PadBytes,
                            n \in (LitCap - 1)..(RunCap + MaxOver)}

LongInputs ==
    {pre \o body \o post : pre \in SeqsUpTo(PadBytes, MaxPad),
                           body \in LongBodies,
                           post \in SeqsUpTo(PadBytes, MaxPad)}

\* the worked example of the format: a run of five, a pair, three singles
RunPairSingles == <<5, 5, 5, 5, 5, 9, 9, 1, 2, 3>>

RLEInputs == SeqsUpTo(SmallBytes, MaxLen) \cup LongInputs \cup {RunPairSingles}

\* bytes of the arbitrary streams: both kinds of header at their extremes
RawBytes == {0, 1, 127, 128, 129, 255}

InitDecoder ==
    /\ bufIdx = 0
    /\ valIdx = 0
    /\ header = 0
    /\ count = 0
    /\ k = 0
    /\ value = 0
    /\ lastWrite = -1
    /\ lastRead = -1

InitRoundTrip ==
    /\ pc = "enc"
    /\ mode = "rt"
    /\ data \in RLEInputs
    /\ i = 0
    /\ output = <<>>
    /\ encBroke = FALSE
    /\ val = <<>>
    /\ bufferLen = 0
    /\ buffer = <<>>
    /\ InitDecoder

\* the most reads past the end of v that a run of _unpack(v, buffer, len)
\* makes: the reads that the record cut by the end of the stream makes there,
\* then a header and a byte for every cell of the buffer still to fill
ReadsBehind(v, len) ==
    CHOOSE n \in {(IF st.lastRead + 1 > Len(v)
                    THEN st.lastRead + 1 - Len(v) ELSE 0)
                   + (IF st.over THEN 2 * (len - st.bufIdx) ELSE 0) :
                      st \in {UnpackEnd(v, len)}} : TRUE

\* the runs of the decoder on the streams as long as v into len cells, one
\* per stream and choice of the bytes read behind it, are within the budget
WithinJunkRuns(v, len) ==
    PowerWithin(Cardinality(JunkBytes), ReadsBehind(v, len),
                MaxJunkRuns \div (Cardinality(RawBytes) ^ Len(v)))

\* the arbitrary streams and declared output lengths
RawInputs ==
    {in \in SeqsUpTo(RawBytes, MaxStream) \X (0..MaxBufLen) :
        WithinJunkRuns(in[1], in[2])}

InitRaw ==
    /\ pc = "dec_hdr"
    /\ mode = "raw"
    /\ data = <<>>
    /\ i = 0
    /\ output = <<>>
    /\ encBroke = FALSE
    /\ \E in \in RawInputs :
         /\ val = in[1]
         /\ bufferLen = in[2]
    /\ buffer = [j \in 1..bufferLen |-> Unset]
    /\ InitDecoder

\* null, "" and a cleared timer: a value that may be absent is a sequence of
\* at most one element
NoFile == <<>>
NoCode == <<>>
NoTimer == <<>>

\* useState("my_animation")
DefaultName == "my_animation"

\* useState(30)
DefaultFps == 30

\* the component is not followed: it has no render
NoRender == <<>>

\* the state of GifConverter as it is mounted, but for the settings
Mounted ==
    /\ drops = <<>>
    /\ file = NoFile
    /\ loading = FALSE
    /\ timer = NoTimer
    /\ code = NoCode
    /\ generated = FALSE
    /\ varName = DefaultName
    /\ useCompression = FALSE
    /\ fps = DefaultFps
    /\ fresh = {}
    /\ passive = {}
    /\ edits = 0

\* the debounce effect: the old timer is cleared; without source frames the
\* effect returns, else it sets a timer whose callback is the
\* processAllFrames of this render
Debounce(src, opts) ==
    IF Len(src) = 0
    THEN NoTimer
    ELSE <<[sourceFrames |-> src, options |-> opts]>>

\* the compositor is not running
IdleCompose ==
    /\ gifWidth = 0
    /\ gifHeight = 0
    /\ rawCount = 0
    /\ rawFrames = <<>>
    /\ canvas = <<>>
    /\ frames = <<>>
    /\ befores = <<>>
    /\ sourceFrames = <<>>
    /\ screenWidth = 0
    /\ screenHeight = 0
    /\ gifFrames = <<>>
    /\ Mounted

\* processFrame is not running
IdleFrame ==
    /\ frameImageData = <<>>
    /\ options = <<>>
    /\ targetData = <<>>
    /\ grayBuffer = <<>>
    /\ ssd1306Buffer = <<>>
    /\ idx = 0
    /\ processedFrames = <<>>

InitRLE ==
    /\ InitRoundTrip \/ InitRaw
    /\ IdleCompose
    /\ IdleFrame
    /\ rendered = NoRender

NextRLE ==
    \/ EncStep
    \/ EncReturn
    \/ DecHeader
    \/ DecExit
    \/ DecValue
    \/ DecLit
    \/ DecRep
    \/ DecLoopEnd

SpecRLE == InitRLE /\ [][NextRLE]_vars

(***************************************************************************)
(* Whole runs of the codec. compressRLE and _unpack run to completion in   *)
(* one step each, on the short inputs and on frames near the 16-bit limit  *)
(* of the decoder's indices.                                               *)
(***************************************************************************)
\* let i = 0; const output = []
ScanStart == [i |-> 0, output |-> <<>>, broke |-> FALSE]

\* one iteration of the outer while loop of compressRLE on the scan state st
\* (no iteration once the loop has ended)
ScanRecord(d, st) ==
    IF ~(st.i < Len(d)) \/ st.broke
    THEN st
    ELSE IF IsRun(RunScan(d, st.i, 1))
    THEN [i |-> st.i + RunScan(d, st.i, 1),
          output |-> st.output \o <<RepeatHeader(RunScan(d, st.i, 1)), d[st.i + 1]>>,
          broke |-> FALSE]
    ELSE IF LitScan(d, st.i, 0) > 0
    THEN [i |-> st.i + LitScan(d, st.i, 0),
          output |-> st.output \o <<LiteralHeader(LitScan(d, st.i, 0))>>
                              \o SubSeq(d, st.i + 1, st.i + LitScan(d, st.i, 0)),
          broke |-> FALSE]
    ELSE [i |-> st.i, output |-> st.output, broke |-> TRUE]

\* n iterations of the outer while loop, the second half on the state the
\* first half leaves
RECURSIVE ScanRecords(_, _, _)
ScanRecords(d, st, n) ==
    IF n = 0 THEN st
    ELSE IF n = 1 THEN ScanRecord(d, st)
    ELSE CHOOSE r \in {ScanRecords(d, half, n - (n \div 2)) :
                          half \in {ScanRecords(d, st, n \div 2)}} : TRUE

\* the scan state when the while loop of compressRLE has ended: an iteration
\* either moves i forward or breaks, so Len(d) iterations end the loop
ScanEnd(d) == ScanRecords(d, ScanStart, Len(d))

\* return new Uint8Array(output)
compressRLE(d) == ScanEnd(d).output

\* compressRLE(data) as a whole; the firmware then calls _unpack on the frame
\* with the packed frame's size as bufferLen
Compress ==
    /\ pc = "enc"
    /\ i = 0
    /\ \E st \in {ScanEnd(data)} :
         /\ ~(st.i < Len(data)) \/ st.broke
         /\ i' = st.i
         /\ output' = st.output
         /\ encBroke' = st.broke
         /\ val' = st.output
    /\ bufferLen' = Len(data)
    /\ buffer' = [j \in 1..Len(data) |-> Unset]
    /\ pc' = "dec_hdr"
    /\ UNCHANGED <<mode, data, bufIdx, valIdx, header, count, k, value,
                   lastWrite, lastRead>>
    /\ UNCHANGED <<compVars, frameVars>>

\* _unpack(val, buffer, bufferLen) as a whole, when every read of the run is
\* inside the stream (a run that reads past the end is followed read by read
\* by the steps of the decoder)
Unpack ==
    /\ pc = "dec_hdr"
    /\ lastRead = -1
    /\ \E st \in {UnpackEnd(val, bufferLen)} :
         /\ ~st.over
         /\ ~(st.bufIdx < bufferLen)
         /\ buffer' = st.buffer
         /\ bufIdx' = st.bufIdx
         /\ valIdx' = st.valIdx
         /\ header' = st.header
         /\ count' = st.count
         /\ k' = st.k
         /\ value' = st.value
         /\ lastWrite' = st.lastWrite
         /\ lastRead' = st.lastRead
    /\ pc' = "done"
    /\ UNCHANGED <<mode, data, i, output, encBroke, val, bufferLen>>
    /\ UNCHANGED <<compVars, frameVars>>

\* the largest frames whose size fits the uint16_t bufferLen: constant ones
\* and ones that alternate between two bytes
WideInputs ==
    {Alternating(a, b, n) \o <<>> :
        a \in PadBytes, b \in PadBytes,
        n \in (Uint16 - 1 - MaxShort)..(Uint16 - 1)}

InitWide ==
    /\ pc = "enc"
    /\ mode = "rt"
    /\ data \in RLEInputs \cup WideInputs
    /\ i = 0
    /\ output = <<>>
    /\ encBroke = FALSE
    /\ val = <<>>
    /\ bufferLen = 0
    /\ buffer = <<>>
    /\ InitDecoder
    /\ IdleCompose
    /\ IdleFrame
    /\ rendered = NoRender

NextWide ==
    \/ Compress
    \/ Unpack

SpecWide == InitWide /\ [][NextWide]_vars

(***************************************************************************)
(* Claims about the codec (under SpecRLE)                                  *)
(***************************************************************************)
\* C1: RLE round trip. When the decoder has returned from decoding
\* compressRLE(data) with declared length Len(data), the output buffer holds
\* exactly data.
C1_RoundTrip ==
    (mode = "rt" /\ pc = "done") => buffer = data

\* a round trip of an input longer than the run cap has completed
C1_Witness ==
    /\ mode = "rt" /\ pc = "done"
    /\ Len(data) > RunCap
    /\ buffer = data

\* C2: the decoder never writes to an output index >= bufferLen, whatever the
\* stream and the declared length.
C2_NoWriteBeyondLen ==
    lastWrite < bufferLen

\* a record is being cut short: the buffer is full, its last cell written,
\* and the record has iterations left
C2_Witness ==
    /\ pc \in {"dec_lit", "dec_rep"}
    /\ k < count
    /\ bufferLen > 0
    /\ bufIdx = bufferLen
    /\ lastWrite = bufferLen - 1

\* C3 as stated: the decoder never reads val at an index at or beyond the
\* end of the stream, whatever the stream and the declared length.
C3_NoReadBeyondEnd ==
    lastRead < Len(val)

\* C3 amended: decoding compressRLE(data) with declared length Len(data),
\* the decoder never reads val at an index at or beyond the end of the stream.
C3_NoReadBeyondEndOfEncoded ==
    mode = "rt" => lastRead < Len(val)

\* the decoder has read the last byte of an encoded stream and returned
C3_Witness ==
    /\ mode = "rt" /\ pc = "done"
    /\ Len(val) > 0
    /\ lastRead = Len(val) - 1

\* C12: the scan of compressRLE terminates with the position equal to
\* data.length: every iteration of the outer loop advances the position by at
\* least one byte and never past the end, the loop is left only at the end of
\* the input, and the safety break (literal length 0) is never taken.
C12_ScanAdvancesToEnd ==
    [][pc = "enc" =>
          IF pc' = "enc"
          THEN i' > i /\ i' <= Len(data) /\ ~encBroke'
          ELSE i = Len(data) /\ ~encBroke]_vars

\* the scan of an input longer than the run cap has ended at its end, after
\* more than one iteration
C12_Witness ==
    /\ mode = "rt" /\ pc = "dec_hdr" /\ valIdx = 0
    /\ Len(data) > RunCap
    /\ i = Len(data)
    /\ Len(val) > 2
    /\ ~encBroke

\* the bytes the current iteration of compressRLE appended to the output
Appended(before, after) == SubSeq(after, Len(before) + 1, Len(after))

\* rec is a legal repeat record for the input at position pos
LegalRepeat(rec, pos, next) ==
    /\ Len(rec) = 2
    /\ rec[1] \in 128..255
    /\ LET runLen == rec[1] - 128 + 3
       IN /\ runLen \in 3..130
          /\ next = pos + runLen
          /\ next <= Len(data)
          /\ \A j \in 1..runLen : data[pos + j] = rec[2]

\* rec is a legal literal record for the input at position pos
LegalLiteral(rec, pos, next) ==
    /\ Len(rec) >= 2
    /\ rec[1] \in 0..127
    /\ LET litLen == rec[1] + 1
       IN /\ litLen \in 1..128
          /\ Len(rec) = 1 + litLen
          /\ next = pos + litLen
          /\ next <= Len(data)
          /\ \A j \in 1..litLen : rec[1 + j] = data[pos + j]

\* C20: every record compressRLE emits is legal. A repeat record has header
\* 128 + (runLen - 3) in 128..255 for a run of 3..130 equal bytes (never a run
\* of 1 or 2) and one value byte; a literal record has header litLen - 1 in
\* 0..127 followed by exactly litLen bytes, litLen in 1..128. The input
\* [5,5,5,5,5,9,9,1,2,3] encodes to [130,5,4,9,9,1,2,3].
C20_RecordsLegal ==
    /\ [][(pc = "enc" /\ pc' = "enc") =>
             /\ SubSeq(output', 1, Len(output)) = output
             /\ \/ LegalRepeat(Appended(output, output'), i, i')
                \/ LegalLiteral(Appended(output, output'), i, i')]_vars
    /\ []((mode = "rt" /\ pc # "enc" /\ data = RunPairSingles)
             => val = <<130, 5, 4, 9, 9, 1, 2, 3>>)

\* the example has been encoded, by a repeat record and a literal record
C20_Witness ==
    /\ mode = "rt" /\ pc = "done"
    /\ data = RunPairSingles
    /\ val = <<130, 5, 4, 9, 9, 1, 2, 3>>

\* three equal input bytes start at position p (from 0)
ThreeEqualFrom(p) ==
    /\ p + 2 < Len(data)
    /\ data[p + 1] = data[p + 2]
    /\ data[p + 2] = data[p + 3]

\* the iteration of compressRLE that is being taken emits a literal record
EmitsLiteral ==
    /\ pc = "enc" /\ pc' = "enc"
    /\ Len(output') > Len(output)
    /\ output'[Len(output) + 1] < 128

\* C21: a literal record stops as soon as a forward run of three equal bytes
\* begins. No input position j covered by a literal record has
\* data[j] = data[j+1] = data[j+2]; a literal that stopped below 128 bytes and
\* before the end of the input stopped at the start of such a run; and an
\* iteration that starts at such a run emits a repeat record of at least
\* three bytes with the run's value, so the literal is immediately followed
\* by the repeat record for that run.
C21_LiteralStopsAtRun ==
    /\ [][EmitsLiteral =>
             /\ \A j \in i..(i' - 1) : ~ThreeEqualFrom(j)
             /\ (i' < Len(data) /\ i' - i < 128) => ThreeEqualFrom(i')]_vars
    /\ [][(pc = "enc" /\ pc' = "enc" /\ ThreeEqualFrom(i)) =>
             /\ Len(output') = Len(output) + 2
             /\ output'[Len(output) + 1] >= 128
             /\ output'[Len(output) + 2] = data[i + 1]
             /\ i' >= i + 3
             /\ \A j \in (i + 1)..i' : data[j] = data[i + 1]]_vars

\* a literal record that stopped at a run of three, and the repeat record for
\* that run right after it, have been emitted
C21_Witness ==
    /\ mode = "rt" /\ pc = "dec_hdr" /\ valIdx = 0
    /\ Len(val) >= 4
    /\ val[1] < 127
    /\ val[1] + 2 < Len(data)
    /\ Len(val) >= val[1] + 4
    /\ val[val[1] + 3] >= 128
    /\ val[val[1] + 4] = data[val[1] + 2]
    /\ ThreeEqualFrom(val[1] + 1)

\* n + ceil(n / 128)
WorstCaseLength(n) == n + ((n + 127) \div 128)

\* the input holds no three consecutive equal bytes
NoThreeEqual == \A p \in 0..(Len(data) - 1) : ~ThreeEqualFrom(p)

\* C23: worst-case expansion. For every input of length n the output of
\* compressRLE is at most n + ceil(n/128) bytes long, and exactly that long
\* when the input holds no three consecutive equal bytes.
C23_ExpansionBound ==
    (mode = "rt" /\ pc # "enc") =>
        /\ Len(val) <= WorstCaseLength(Len(data))
        /\ NoThreeEqual => Len(val) = WorstCaseLength(Len(data))

\* an input of more than 128 bytes without three equal bytes in a row has
\* been encoded into two bytes more than its length
C23_Witness ==
    /\ mode = "rt" /\ pc = "done"
    /\ Len(data) > 128
    /\ NoThreeEqual
    /\ Len(val) = Len(data) + 2
    /\ Len(val) > Len(data)

\* C24: run on compressRLE(data) with declared length data.length, the
\* decoder consumes the encoded stream exactly. Every record is read in full
\* and none is cut short by the output-length guard: a turn of a record's
\* loop always finds room in the buffer. When the output is full the read
\* index equals the encoded length, so no trailing byte is left unread.
C24_ConsumesStreamExactly ==
    /\ (mode = "rt" /\ pc \in {"dec_lit", "dec_rep"} /\ k < count)
          => bufIdx < bufferLen
    /\ (mode = "rt" /\ pc = "done") => valIdx = Len(val)

\* C25: the 16-bit indices of the decoder never wrap. For every packed frame
\* whose length fits the uint16_t bufferLen, the encoded length of the frame
\* fits the 16 bits of an entry of _sizes, and decoding it reads val fewer
\* than 2^16 times, so that valIdx, one more per read, stays below 2^16.
C25_IndicesNeverWrap ==
    (mode = "rt" /\ pc = "dec_hdr" /\ lastRead = -1 /\ Len(data) < Uint16) =>
        /\ Len(val) < Uint16
        /\ \A st \in {UnpackEnd(val, bufferLen)} : st.reads < Uint16

(***************************************************************************)
(* extractComposedFrames                                                   *)
(***************************************************************************)
\* RGBA pixels; the decoder's patches hold only alpha 0 and alpha 255
Transparent == <<0, 0, 0, 0>>
Black == <<0, 0, 0, 255>>
Red == <<255, 0, 0, 255>>
White == <<255, 255, 255, 255>>

\* pixels of the patches fed to the compositor
PatchColours == {Transparent, White}

\* disposalType: 1 do not dispose, 2 restore to background, 3 restore to previous
DisposalTypes == {1, 2, 3}

\* null: the _backup of a frame whose disposal is not 3 (a value that may be
\* null is a sequence of at most one element)
Null == <<>>

\* row-major index (from 1) of pixel (x, y) in a bitmap of width w
PixelIndex(x, y, w) == y * w + x + 1

\* new OffscreenCanvas(w, h): transparent black
BlankCanvas(w, h) == [p \in 1..(w * h) |-> Transparent]

\* ctx.getImageData(0, 0, gifWidth, gifHeight): a copy of the canvas
GetImageData(c, w, h) == [width |-> w, height |-> h, data |-> c]

\* pixel (x, y) of the canvas lies in the rectangle dims
InRect(x, y, dims) ==
    /\ dims.left <= x /\ x < dims.left + dims.width
    /\ dims.top <= y /\ y < dims.top + dims.height

\* a blit that overwrites the destination whatever the source's alpha
Overwrite(src, dst) == src

\* canvas compositing of drawImage (source-over) for alpha 0 and 255: an
\* opaque source pixel replaces the destination, a transparent one leaves it
SourceOver(src, dst) == IF src[4] = 255 THEN src ELSE dst

\* patchCtx.putImageData(patchData, 0, 0); ctx.drawImage(patchCanvas, left, top)
DrawPatch(c, w, h, frame) ==
    [p \in 1..(w * h) |->
        LET x == (p - 1) % w
            y == (p - 1) \div w
            d == frame.dims
        IN IF InRect(x, y, d)
           THEN SourceOver(frame.patch[PixelIndex(x - d.left, y - d.top, d.width)], c[p])
           ELSE c[p]]

\* a clear that wipes the whole canvas instead of the rectangle
ClearWholeCanvas(c, w, h, dims) == BlankCanvas(w, h)

\* ctx.clearRect(left, top, width, height)
ClearRect(c, w, h, dims) ==
    [p \in 1..(w * h) |->
        IF InRect((p - 1) % w, (p - 1) \div w, dims) THEN Transparent ELSE c[p]]

\* const _backup = disposalType === 3 ? ctx.getImageData(...) : null
Backup(c, w, h, disposalType) ==
    IF disposalType = 3 THEN <<GetImageData(c, w, h)>> ELSE Null

\* a disposal that maps "restore to previous" to "restore to background"
DisposeRestoreAsClear(drawn, w, h, frame, backup) ==
    IF frame.disposalType \in {2, 3}
    THEN ClearRect(drawn, w, h, frame.dims)
    ELSE drawn

\* a disposal that never restores: type 3 is treated as "do not dispose"
DisposeNoRestore(drawn, w, h, frame, backup) ==
    IF frame.disposalType = 2
    THEN ClearRect(drawn, w, h, frame.dims)
    ELSE drawn

\* the canvas after the disposal of a frame, given the canvas with its patch
\* drawn and its _backup
Dispose(drawn, w, h, frame, backup) ==
    IF frame.disposalType = 2
    THEN ClearRect(drawn, w, h, frame.dims)
    ELSE IF frame.disposalType = 3 /\ backup # Null
    THEN backup[1].data
    ELSE drawn

\* a capture taken after the disposal of the frame
CapturedAfterDisposal(drawn, disposed) == disposed

\* const frameImage = ctx.getImageData(...) on line 133: the canvas captured
\* when the patch is drawn and the disposal (lines 137-143) is still to come
Captured(drawn, disposed) == drawn

\* the frame list with the bitmap of this patch frame put first
EmittedAtFront(fs, drawn, w, h) == <<GetImageData(drawn, w, h)>> \o fs

\* frames.push(imageData): the bitmap of this patch frame joins the list last
Emitted(fs, drawn, w, h) == Append(fs, GetImageData(drawn, w, h))

\* new ImageData(new Uint8ClampedArray(patch), dims.width, dims.height)
\* throws when a side is zero or the data are not width * height pixels
ImageDataThrows(frame) ==
    \/ frame.dims.width = 0
    \/ frame.dims.height = 0
    \/ Len(frame.patch) # frame.dims.width * frame.dims.height

\* a patch frame of no pixels, as decoded from an image descriptor of size 0
EmptyPatch ==
    [dims |-> [left |-> 0, top |-> 0, width |-> 0, height |-> 0],
     disposalType |-> 1,
     patch |-> <<>>]

\* the patch frames the GIF decoder can hand over for a w x h logical screen
PatchesOn(w, h) ==
    {f \in [dims : [left : 0..(w - 1), top : 0..(h - 1),
                    width : 1..w, height : 1..h],
            disposalType : DisposalTypes,
            patch : SeqsUpTo(PatchColours, w * h)] :
        Len(f.patch) = f.dims.width * f.dims.height}

\* rawFrames.length of the animations composed on a w x h canvas: the most
\* frames, up to MaxFrames, whose animations number at most budget
FrameLimit(w, h, budget) ==
    LET patches == Cardinality(PatchesOn(w, h))
    IN CHOOSE n \in 0..MaxFrames :
          /\ PowerWithin(patches, n, budget)
          /\ (n = MaxFrames \/ ~PowerWithin(patches, n + 1, budget))

\* the frame rawFrames.forEach visits next: the next one of the dropped GIF,
\* or any patch frame when extractComposedFrames is called on its own
NextPatches ==
    IF screenWidth = 0
    THEN PatchesOn(gifWidth, gifHeight) \cup {EmptyPatch}
    ELSE {gifFrames[Len(rawFrames) + 1]}

\* One iteration of rawFrames.forEach.
ComposeFrame ==
    /\ pc = "compose"
    /\ Len(rawFrames) < rawCount
    /\ \E frame \in {f \in NextPatches : ~ImageDataThrows(f)} :
         LET backup == Backup(canvas, gifWidth, gifHeight, frame.disposalType)
             drawn == DrawPatch(canvas, gifWidth, gifHeight, frame)
             disposed == Dispose(drawn, gifWidth, gifHeight, frame, backup)
         IN /\ rawFrames' = Append(rawFrames, frame)
            /\ befores' = Append(befores, canvas)
            /\ frames' = Emitted(frames, Captured(drawn, disposed),
                                 gifWidth, gifHeight)
            /\ canvas' = disposed
    /\ UNCHANGED <<pc, gifWidth, gifHeight, rawCount, sourceFrames,
                   screenWidth, screenHeight, gifFrames>>
    /\ UNCHANGED <<rleVars, frameVars, uiVars>>

\* An iteration of rawFrames.forEach in which new ImageData throws: the call
\* of extractComposedFrames ends without a result. Called from onDrop, the
\* catch block alerts, setSourceFrames is not reached and the finally block
\* clears the loading flag
ComposeThrows ==
    /\ pc = "compose"
    /\ Len(rawFrames) < rawCount
    /\ \E frame \in NextPatches : ImageDataThrows(frame)
    /\ pc' = "thrown"
    /\ IF drops = <<>>
       THEN UNCHANGED <<drops, loading>>
       ELSE /\ drops' = [drops EXCEPT ![Len(drops)].at = "failed"]
            /\ loading' = FALSE
    /\ UNCHANGED <<edits, file, timer, code, generated, fps, varName,
                   useCompression, rendered, fresh, passive>>
    /\ UNCHANGED <<gifWidth, gifHeight, rawCount, rawFrames, canvas, frames,
                   befores, sourceFrames, screenWidth, screenHeight,
                   gifFrames>>
    /\ UNCHANGED <<rleVars, frameVars>>

\* return frames. Called from onDrop, the frames are handed to
\* setSourceFrames(composed) and the finally block clears the loading flag
ComposeReturn ==
    /\ pc = "compose"
    /\ Len(rawFrames) = rawCount
    /\ sourceFrames' = frames
    /\ pc' = "loaded"
    /\ IF drops = <<>>
       THEN UNCHANGED <<drops, loading, fresh>>
       ELSE /\ drops' = [drops EXCEPT ![Len(drops)].at = "done"]
            /\ loading' = FALSE
            /\ fresh' = fresh \cup {"sourceFrames"}
    /\ UNCHANGED <<edits, file, timer, code, generated, fps, varName,
                   useCompression, rendered, passive>>
    /\ UNCHANGED <<gifWidth, gifHeight, rawCount, rawFrames, canvas, frames,
                   befores, screenWidth, screenHeight, gifFrames>>
    /\ UNCHANGED <<rleVars, frameVars>>

\* the codec is not running
IdleRLE ==
    /\ mode = "off"
    /\ data = <<>>
    /\ i = 0
    /\ output = <<>>
    /\ encBroke = FALSE
    /\ val = <<>>
    /\ bufferLen = 0
    /\ buffer = <<>>
    /\ InitDecoder

InitCompose ==
    /\ pc = "compose"
    /\ gifWidth \in 1..MaxGif
    /\ gifHeight \in 1..MaxGif
    /\ rawCount \in 0..FrameLimit(gifWidth, gifHeight, MaxAnimations)
    /\ rawFrames = <<>>
    /\ canvas = BlankCanvas(gifWidth, gifHeight)
    /\ frames = <<>>
    /\ befores = <<>>
    /\ sourceFrames = <<>>
    /\ screenWidth = 0
    /\ screenHeight = 0
    /\ gifFrames = <<>>
    /\ Mounted
    /\ IdleRLE
    /\ IdleFrame
    /\ rendered = NoRender

NextCompose ==
    \/ ComposeFrame
    \/ ComposeThrows
    \/ ComposeReturn

SpecCompose == InitCompose /\ [][NextCompose]_vars

(***************************************************************************)
(* processFrame                                                            *)
(***************************************************************************)
FitModes == {"stretch", "cover", "contain"}

\* The resampler computes in IEEE 754 double precision. A double is modelled
\* by its exact value (-1)^neg * man * 2^exp, where man is a natural number of
\* MantissaBits bits (or zero), held as a sequence of limbs, least significant
\* first, without leading zero limbs. The sizes are far from the exponent
\* limits of the format, so no result overflows or underflows.
MantissaBits == 53
LimbBits == 15
LimbBase == 2 ^ LimbBits

\* a natural number without its leading zero limbs
Trim(b) ==
    IF \A j \in 1..Len(b) : b[j] = 0 THEN <<>>
    ELSE SubSeq(b, 1, CHOOSE j \in 1..Len(b) :
                         b[j] # 0 /\ \A m \in (j + 1)..Len(b) : b[m] = 0)

\* the limbs of a number below LimbBase ^ 2
BigOf(n) == Trim(<<n % LimbBase, n \div LimbBase>>)

\* the number of bits of a limb, and of a natural number
LimbBitLen(n) ==
    IF n = 0 THEN 0
    ELSE CHOOSE s \in 1..LimbBits : 2 ^ (s - 1) <= n /\ n < 2 ^ s
BigBitLen(b) ==
    IF b = <<>> THEN 0
    ELSE LimbBits * (Len(b) - 1) + LimbBitLen(b[Len(b)])

LimbAt(b, j) == IF j <= Len(b) THEN b[j] ELSE 0

\* b * m for 0 <= m <= LimbBase
RECURSIVE BigTimesFrom(_, _, _, _)
BigTimesFrom(b, m, j, carry) ==
    IF j > Len(b) THEN (IF carry = 0 THEN <<>> ELSE <<carry>>)
    ELSE LET t == b[j] * m + carry
         IN <<t % LimbBase>> \o BigTimesFrom(b, m, j + 1, t \div LimbBase)
BigTimes(b, m) == Trim(BigTimesFrom(b, m, 1, 0))

\* quotient and remainder of b by d, for 1 <= d <= LimbBase
RECURSIVE BigDivFrom(_, _, _, _)
BigDivFrom(b, d, j, rem) ==
    IF j = 0 THEN [q |-> <<>>, r |-> rem]
    ELSE LET cur == rem * LimbBase + b[j]
             low == BigDivFrom(b, d, j - 1, cur % d)
         IN [q |-> <<cur \div d>> \o low.q, r |-> low.r]

\* BigDivFrom lists the quotient's limbs most significant first
Reversed(s) == [j \in 1..Len(s) |-> s[Len(s) + 1 - j]]
BigDiv(b, d) ==
    LET res == BigDivFrom(b, d, Len(b), 0)
    IN [q |-> Trim(Reversed(res.q)), r |-> res.r]

RECURSIVE BigPlusFrom(_, _, _, _)
BigPlusFrom(a, b, j, carry) ==
    IF j > Len(a) /\ j > Len(b) THEN (IF carry = 0 THEN <<>> ELSE <<carry>>)
    ELSE LET t == LimbAt(a, j) + LimbAt(b, j) + carry
         IN <<t % LimbBase>> \o BigPlusFrom(a, b, j + 1, t \div LimbBase)
BigPlus(a, b) == Trim(BigPlusFrom(a, b, 1, 0))

\* a <= b
BigLeq(a, b) ==
    \/ Len(a) < Len(b)
    \/ /\ Len(a) = Len(b)
       /\ \/ a = b
          \/ LET j == CHOOSE m \in 1..Len(a) :
                         a[m] # b[m] /\ \A n \in (m + 1)..Len(a) : a[n] = b[n]
             IN a[j] < b[j]

\* a - b for b <= a
RECURSIVE BigMinusFrom(_, _, _, _)
BigMinusFrom(a, b, j, borrow) ==
    IF j > Len(a) THEN <<>>
    ELSE LET t == a[j] - LimbAt(b, j) - borrow
         IN <<t % LimbBase>> \o BigMinusFrom(a, b, j + 1, IF t < 0 THEN 1 ELSE 0)
BigMinus(a, b) == Trim(BigMinusFrom(a, b, 1, 0))

\* b * 2^s and floor(b / 2^s)
ShiftLeft(b, s) ==
    IF b = <<>> THEN <<>>
    ELSE [j \in 1..(s \div LimbBits) |-> 0] \o BigTimes(b, 2 ^ (s % LimbBits))
ShiftRight(b, s) ==
    IF s \div LimbBits >= Len(b) THEN <<>>
    ELSE BigDiv(SubSeq(b, s \div LimbBits + 1, Len(b)), 2 ^ (s % LimbBits)).q

Double(neg, man, exp) == [neg |-> neg, man |-> man, exp |-> exp]
Zero == Double(FALSE, <<>>, 0)

\* The double nearest to (-1)^neg * (big + fraction) * 2^exp, where fraction
\* is in [0, 1) and is not zero exactly when sticky; ties go to the even
\* mantissa. With s the number of bits of big beyond MantissaBits, kept is
\* big without its s lowest bits, low those bits, and half is 2^(s-1).
\* the bits cut off round up: more than half, or half and kept is odd
RoundsUp(kept, low, half, sticky) ==
    \/ ~BigLeq(low, half)
    \/ low = half /\ (sticky \/ kept[1] % 2 = 1)

\* a mantissa that rounding up has carried to MantissaBits + 1 bits is
\* shifted back
Normalized(neg, rounded, exp) ==
    IF BigBitLen(rounded) > MantissaBits
    THEN Double(neg, ShiftRight(rounded, 1), exp + 1)
    ELSE Double(neg, rounded, exp)

RoundKept(neg, kept, low, half, exp, sticky) ==
    Normalized(neg,
               IF RoundsUp(kept, low, half, sticky)
               THEN BigPlus(kept, <<1>>) ELSE kept,
               exp)

RoundAt(neg, big, s, kept, exp, sticky) ==
    RoundKept(neg, kept, BigMinus(big, ShiftLeft(kept, s)),
              ShiftLeft(<<1>>, s - 1), exp + s, sticky)

RoundBits(neg, big, exp, sticky, s) ==
    IF s <= 0 THEN Double(neg, ShiftLeft(big, -s), exp + s)
    ELSE RoundAt(neg, big, s, ShiftRight(big, s), exp, sticky)

RoundToDouble(neg, big, exp, sticky) ==
    IF big = <<>> THEN Zero
    ELSE RoundBits(neg, big, exp, sticky, BigBitLen(big) - MantissaBits)

\* extra quotient bits computed before rounding a / b
GuardBits == 5 * LimbBits

\* a / b for integers a >= 0 and b >= 1 below LimbBase
Quotient(a, b) ==
    LET res == BigDiv(ShiftLeft(BigOf(a), GuardBits), b)
    IN RoundToDouble(FALSE, res.q, -GuardBits, res.r # 0)

\* m * f for an integer 0 <= m <= LimbBase
Times(m, f) == RoundToDouble(f.neg, BigTimes(f.man, m), f.exp, FALSE)

\* m - f for an integer 0 <= m below LimbBase
Minus(m, f) ==
    LET e == IF f.exp < 0 THEN f.exp ELSE 0
        a == ShiftLeft(BigOf(m), -e)
        b == ShiftLeft(f.man, f.exp - e)
    IN IF f.neg THEN RoundToDouble(FALSE, BigPlus(a, b), e, FALSE)
       ELSE IF BigLeq(b, a) THEN RoundToDouble(FALSE, BigMinus(a, b), e, FALSE)
       ELSE RoundToDouble(TRUE, BigMinus(b, a), e, FALSE)

\* f / 2
Halved(f) == IF f.man = <<>> THEN f ELSE [f EXCEPT !.exp = @ - 1]

\* f <= g for doubles f, g >= 0
DoubleLeq(f, g) ==
    LET e == IF f.exp < g.exp THEN f.exp ELSE g.exp
    IN BigLeq(ShiftLeft(f.man, f.exp - e), ShiftLeft(g.man, g.exp - e))

\* Math.max, Math.min of doubles >= 0
DoubleMax(f, g) == IF DoubleLeq(f, g) THEN g ELSE f
DoubleMin(f, g) == IF DoubleLeq(f, g) THEN f ELSE g

\* the exponent of the power of two that the spacing of the doubles just
\* below m > 0 is twice of: the doubles in [2^(n-1), 2^n) are 2^(n-53) apart
HalfGapBelow(m) ==
    LET n == LimbBitLen(m)
    IN IF m = 2 ^ (n - 1) THEN n - 2 - MantissaBits ELSE n - 1 - MantissaBits
HalfGapAbove(m) == LimbBitLen(m) - 1 - MantissaBits

\* v * m * 2^s <= u * 2^s + v, that is u / v >= m - 2^(-s), for doubles
\* u >= 0 and v > 0 and an integer m >= 1
ReachesFromBelow(u, v, m, s) ==
    LET e == IF u.exp + s < v.exp THEN u.exp + s ELSE v.exp
    IN BigLeq(ShiftLeft(BigTimes(v.man, m), v.exp + s - e),
              BigPlus(ShiftLeft(u.man, u.exp + s - e),
                      ShiftLeft(v.man, v.exp - e)))

\* |u| * 2^s <= v * m * 2^s + v, that is |u| / v <= m + 2^(-s), for doubles
\* u and v > 0 and an integer m >= 1
StaysWithin(u, v, m, s) ==
    LET e == IF u.exp + s < v.exp THEN u.exp + s ELSE v.exp
    IN BigLeq(ShiftLeft(u.man, u.exp + s - e),
              BigPlus(ShiftLeft(BigTimes(v.man, m), v.exp + s - e),
                      ShiftLeft(v.man, v.exp - e)))

\* the double u / v is at least the integer m, for v > 0. Division rounds to
\* nearest, so it reaches m >= 1 exactly when u / v reaches the midpoint
\* between m and the double below it (the tie goes to m, whose mantissa is
\* even), and stays at -m or above exactly when -u / v is at most the
\* midpoint between m and the double above it.
QuotientAtLeast(u, v, m) ==
    IF m = 0 THEN ~u.neg \/ u.man = <<>>
    ELSE IF m > 0 THEN ~u.neg /\ ReachesFromBelow(u, v, m, -HalfGapBelow(m))
    ELSE ~u.neg \/ StaysWithin(u, v, -m, -HalfGapAbove(-m))

\* a bound on |u / v| + 1
QuotientBound(u, v) ==
    LET d == (BigBitLen(u.man) + u.exp) - (BigBitLen(v.man) + v.exp) + 1
    IN IF d < 1 THEN 2 ELSE 2 ^ d + 1

\* Math.floor(u / v) for v > 0
FloorQuotient(u, v) ==
    IF u.neg /\ u.man # <<>>
    THEN -(CHOOSE m \in 1..QuotientBound(u, v) : QuotientAtLeast(u, v, -m))
    ELSE CHOOSE m \in 0..QuotientBound(u, v) : ~QuotientAtLeast(u, v, m + 1)

\* the common scale of the cover and contain fits
FitScale(sw, sh, opts) ==
    IF opts.fit = "cover"
    THEN DoubleMax(Quotient(opts.width, sw), Quotient(opts.height, sh))
    ELSE DoubleMin(Quotient(opts.width, sw), Quotient(opts.height, sh))

\* scaleX, scaleY after the fit mode is applied
ScaleX(sw, sh, opts) ==
    IF opts.fit \in {"cover", "contain"} THEN FitScale(sw, sh, opts)
    ELSE Quotient(opts.width, sw)
ScaleY(sw, sh, opts) ==
    IF opts.fit \in {"cover", "contain"} THEN FitScale(sw, sh, opts)
    ELSE Quotient(opts.height, sh)

\* offsetX, offsetY: (target - srcLen * scale) / 2 for cover and contain, else 0
Offset(target, srcLen, scale, fit) ==
    IF fit \in {"cover", "contain"}
    THEN Halved(Minus(target, Times(srcLen, scale)))
    ELSE Zero

\* Math.floor((x - offset) / scale)
SrcCoord(x, offset, scale) == FloorQuotient(Minus(x, offset), scale)

\* srcX of every target column and srcY of every target row, each computed
\* once: element x + 1 is the coordinate of column (row) x
SrcXs(frame, opts) ==
    LET scaleX == ScaleX(frame.width, frame.height, opts)
        offsetX == Offset(opts.width, frame.width, scaleX, opts.fit)
    IN [x \in 1..opts.width |-> SrcCoord(x - 1, offsetX, scaleX)] \o <<>>
SrcYs(frame, opts) ==
    LET scaleY == ScaleY(frame.width, frame.height, opts)
        offsetY == Offset(opts.height, frame.height, scaleY, opts.fit)
    IN [y \in 1..opts.height |-> SrcCoord(y - 1, offsetY, scaleY)] \o <<>>

\* the padding of a target pixel that maps outside the source
Padding == <<0, 0, 0, 255>>

\* body of the sampling loop for a target pixel with source coordinates
\* (srcX, srcY)
SamplePixel(frame, srcX, srcY) ==
    IF srcX >= 0 /\ srcX < frame.width /\ srcY >= 0 /\ srcY < frame.height
    THEN frame.data[srcY * frame.width + srcX + 1]
    ELSE Padding

\* the sampling loop: targetData, row-major
Resample(frame, opts) ==
    LET srcXs == SrcXs(frame, opts)
        srcYs == SrcYs(frame, opts)
    IN [p \in 1..(opts.width * opts.height) |->
           SamplePixel(frame, srcXs[((p - 1) % opts.width) + 1],
                       srcYs[((p - 1) \div opts.width) + 1])] \o <<>>

\* grayBuffer is a Float32Array: its elements are floats of FloatBits
\* mantissa bits, modelled like the doubles by their exact value
\* (-1)^neg * man * 2^exp. Reading an element gives a double of the same
\* value; storing a double rounds it to the nearest float, ties to the even
\* mantissa. The values are far from the exponent limits of the format.
FloatBits == 24

\* a mantissa that rounding up has carried to FloatBits + 1 bits is shifted
\* back
FloatNormalized(neg, rounded, exp) ==
    IF BigBitLen(rounded) > FloatBits
    THEN Double(neg, ShiftRight(rounded, 1), exp + 1)
    ELSE Double(neg, rounded, exp)

\* the float nearest to (-1)^neg * big * 2^exp, where big has s > 0 bits
\* beyond FloatBits and kept is big without its s lowest bits
FloatKept(neg, big, s, kept, exp) ==
    FloatNormalized(neg,
                    IF RoundsUp(kept, BigMinus(big, ShiftLeft(kept, s)),
                                ShiftLeft(<<1>>, s - 1), FALSE)
                    THEN BigPlus(kept, <<1>>) ELSE kept,
                    exp + s)

FloatRound(neg, big, exp, s) ==
    IF s <= 0 THEN Double(neg, ShiftLeft(big, -s), exp + s)
    ELSE FloatKept(neg, big, s, ShiftRight(big, s), exp)

\* the store of the double f into an element of a Float32Array
Fround(f) ==
    IF f.man = <<>> THEN Zero
    ELSE FloatRound(f.neg, f.man, f.exp, BigBitLen(f.man) - FloatBits)

\* f + g for doubles f and g that are not zero, e the smaller exponent
SumAt(f, g, e) ==
    IF f.neg = g.neg
    THEN RoundToDouble(f.neg,
                       BigPlus(ShiftLeft(f.man, f.exp - e),
                               ShiftLeft(g.man, g.exp - e)), e, FALSE)
    ELSE IF BigLeq(ShiftLeft(g.man, g.exp - e), ShiftLeft(f.man, f.exp - e))
    THEN RoundToDouble(f.neg,
                       BigMinus(ShiftLeft(f.man, f.exp - e),
                                ShiftLeft(g.man, g.exp - e)), e, FALSE)
    ELSE RoundToDouble(g.neg,
                       BigMinus(ShiftLeft(g.man, g.exp - e),
                                ShiftLeft(f.man, f.exp - e)), e, FALSE)

\* f + g for doubles
Sum(f, g) ==
    IF f.man = <<>> THEN g
    ELSE IF g.man = <<>> THEN f
    ELSE SumAt(f, g, IF f.exp < g.exp THEN f.exp ELSE g.exp)

\* -f
Negated(f) == IF f.man = <<>> THEN f ELSE [f EXCEPT !.neg = ~@]

\* f < t for a double f and an integer t >= 0
Below(f, t) ==
    IF f.neg THEN f.man # <<>>
    ELSE ~DoubleLeq(Double(FALSE, BigOf(t), 0), f)

\* the doubles 0.299, 0.587 and 0.114
Weight299 == Double(FALSE, <<16777, 19136, 2883, 153>>, -54)
Weight587 == Double(FALSE, <<4194, 29360, 8912, 150>>, -53)
Weight114 == Double(FALSE, <<30409, 16252, 15466, 233>>, -56)

\* 0.299 * r + 0.587 * g + 0.114 * b
Luminance(px) ==
    Sum(Sum(Times(px[1], Weight299), Times(px[2], Weight587)),
        Times(px[3], Weight114))

\* new Uint8Array((width * height) / 8): the length is truncated to an integer
PackedLength(w, h) == (w * h) \div 8

\* the element of grayBuffer of a pixel after the grayscale pass (and the
\* inversion that precedes dithering)
StoredGray(px, opts) ==
    IF opts.dither /\ opts.invert
    THEN Fround(Minus(255, Fround(Luminance(px))))
    ELSE Fround(Luminance(px))

\* StoredGray of every colour of the bitmap: pixels of one colour get the
\* same element, which is computed once
GrayOfColours(target, opts) ==
    [c \in {target[p] : p \in 1..Len(target)} |-> StoredGray(c, opts)] @@ <<>>

GrayOfPixels(target, grays) ==
    [p \in 1..Len(target) |-> grays[target[p]]] \o <<>>

\* grayBuffer after the grayscale pass
GrayPass(target, opts) ==
    CHOOSE gray \in {GrayOfPixels(target, grays) :
                        grays \in {GrayOfColours(target, opts)}} : TRUE

\* byte |= (1 << bit)
SetBit(byte, bit) ==
    IF (byte \div (2 ^ bit)) % 2 = 1 THEN byte ELSE byte + 2 ^ bit

\* page * width + x
ByteIndex(x, y, w) == (y \div 8) * w + x

\* if (newVal > 128) { ... if (byteIdx < ssd1306Buffer.length) buffer[byteIdx] |= 1 << bit }
PackPixel(buf, newVal, x, y, w) ==
    LET bit == y % 8
        byteIdx == ByteIndex(x, y, w)
    IN IF newVal > 128 /\ byteIdx < Len(buf)
       THEN [buf EXCEPT ![byteIdx + 1] = SetBit(@, bit)]
       ELSE buf

\* quantError * (weight / 16)
Share(quantError, weight) ==
    IF quantError.man = <<>> THEN Zero
    ELSE [Times(weight, quantError) EXCEPT !.exp = @ - 4]

\* grayBuffer[y * w + x] += amount, when the guard of the neighbour holds
AddAt(gray, guard, x, y, w, amount) ==
    IF guard
    THEN [gray EXCEPT ![y * w + x + 1] = Fround(Sum(@, amount))]
    ELSE gray

\* a diffusion whose east neighbour is only checked against the end of the
\* buffer: at the end of a row it wraps to the start of the next row
DiffuseWrapping(gray, x, y, w, h, quantError) ==
    LET g1 == AddAt(gray, y * w + x + 1 < w * h, x + 1, y, w, Share(quantError, 7))
        g2 == AddAt(g1, y + 1 < h /\ x > 0, x - 1, y + 1, w, Share(quantError, 3))
        g3 == AddAt(g2, y + 1 < h, x, y + 1, w, Share(quantError, 5))
        g4 == AddAt(g3, y + 1 < h /\ x + 1 < w, x + 1, y + 1, w, Share(quantError, 1))
    IN g4

\* Floyd-Steinberg diffusion of the error of pixel (x, y)
Diffuse(gray, x, y, w, h, quantError) ==
    LET g1 == AddAt(gray, x + 1 < w, x + 1, y, w, Share(quantError, 7))
        g2 == AddAt(g1, y + 1 < h /\ x > 0, x - 1, y + 1, w, Share(quantError, 3))
        g3 == AddAt(g2, y + 1 < h, x, y + 1, w, Share(quantError, 5))
        g4 == AddAt(g3, y + 1 < h /\ x + 1 < w, x + 1, y + 1, w, Share(quantError, 1))
    IN g4

\* oldVal < threshold ? 0 : 255
Quantize(oldVal, threshold) == IF Below(oldVal, threshold) THEN 0 ELSE 255

\* oldVal - newVal
QuantError(oldVal, newVal) == Negated(Minus(newVal, oldVal))

\* (v, v, v, 255)
PreviewPixel(v) == <<v, v, v, 255>>

\* body of the dithering loop for pixel index p = y * width + x
DitherStep(st, opts, p) ==
    LET x == p % opts.width
        y == p \div opts.width
        oldVal == st.gray[p + 1]
        newVal == Quantize(oldVal, opts.threshold)
        quantError == QuantError(oldVal, newVal)
    IN [gray |-> Diffuse(st.gray, x, y, opts.width, opts.height, quantError),
        target |-> [st.target EXCEPT ![p + 1] = PreviewPixel(newVal)],
        buf |-> PackPixel(st.buf, newVal, x, y, opts.width)]

\* a threshold loop body that forgets if (invert) newPixel = 255 - newPixel
ThresholdStepNoInvert(st, opts, p) ==
    LET x == p % opts.width
        y == p \div opts.width
        quantized == Quantize(st.gray[p + 1], opts.threshold)
    IN [gray |-> st.gray,
        target |-> [st.target EXCEPT ![p + 1] = PreviewPixel(quantized)],
        buf |-> PackPixel(st.buf, quantized, x, y, opts.width)]

\* body of the threshold loop for pixel index p = y * width + x
ThresholdStep(st, opts, p) ==
    LET x == p % opts.width
        y == p \div opts.width
        quantized == Quantize(st.gray[p + 1], opts.threshold)
        newPixel == IF opts.invert THEN 255 - quantized ELSE quantized
    IN [gray |-> st.gray,
        target |-> [st.target EXCEPT ![p + 1] = PreviewPixel(newPixel)],
        buf |-> PackPixel(st.buf, newPixel, x, y, opts.width)]

QuantizeStep(st, opts, p) ==
    IF opts.dither THEN DitherStep(st, opts, p) ELSE ThresholdStep(st, opts, p)

\* the quantizer loop from pixel index p to the end; each iteration works on
\* the buffers as the iteration before it left them
RECURSIVE QuantizeFrom(_, _, _)
QuantizeFrom(st, opts, p) ==
    IF p >= opts.width * opts.height THEN st
    ELSE CHOOSE end \in {QuantizeFrom(next, opts, p + 1) :
                            next \in {QuantizeStep(st, opts, p)}} : TRUE

\* new Uint8Array(n): zero filled
ZeroBytes(n) == [j \in 1..n |-> 0]

\* lines 227-333 as a function of the resampled bitmap: the buffers, the
\* grayscale pass, the quantizer loop and the returned frame
QuantizedFrame(target, opts) ==
    LET st == QuantizeFrom([gray |-> GrayPass(target, opts),
                            target |-> target,
                            buf |-> ZeroBytes(PackedLength(opts.width, opts.height))],
                           opts, 0)
    IN [pixels |-> st.buf,
        preview |-> [width |-> opts.width, height |-> opts.height, data |-> st.target]]

\* processFrame as a function of its arguments: the sampling loop runs once
\* and the rest works on the bitmap it produced
processFrame(frame, opts) ==
    CHOOSE r \in {QuantizedFrame(t, opts) : t \in {Resample(frame, opts)}} : TRUE

\* lines 161-223: the sampling loop
FrameResample ==
    /\ pc = "resample"
    /\ targetData' = Resample(frameImageData, options)
    /\ pc' = "gray"
    /\ UNCHANGED <<frameImageData, options, grayBuffer, ssd1306Buffer, idx,
                   processedFrames>>
    /\ UNCHANGED <<rleVars, compVars>>

\* lines 227-264: the buffers, the grayscale pass, the inversion before dithering
FrameGray ==
    /\ pc = "gray"
    /\ ssd1306Buffer' = ZeroBytes(PackedLength(options.width, options.height))
    /\ grayBuffer' = GrayPass(targetData, options)
    /\ idx' = 0
    /\ pc' = "quantize"
    /\ UNCHANGED <<frameImageData, options, targetData, processedFrames>>
    /\ UNCHANGED <<rleVars, compVars>>

\* one iteration of the loop over (y, x), dithering or threshold
QuantizePixel ==
    /\ pc = "quantize"
    /\ idx < options.width * options.height
    /\ LET st == QuantizeStep([gray |-> grayBuffer, target |-> targetData,
                               buf |-> ssd1306Buffer], options, idx)
       IN /\ grayBuffer' = st.gray
          /\ targetData' = st.target
          /\ ssd1306Buffer' = st.buf
    /\ idx' = idx + 1
    /\ UNCHANGED <<pc, frameImageData, options, processedFrames>>
    /\ UNCHANGED <<rleVars, compVars>>

\* return { pixels: ssd1306Buffer, preview: new ImageData(targetData, width, height) }
FrameReturn ==
    /\ pc = "quantize"
    /\ idx >= options.width * options.height
    /\ processedFrames' =
          <<[pixels |-> ssd1306Buffer,
             preview |-> [width |-> options.width, height |-> options.height,
                          data |-> targetData]]>>
    /\ pc' = "frame_done"
    /\ UNCHANGED <<frameImageData, options, targetData, grayBuffer,
                   ssd1306Buffer, idx>>
    /\ UNCHANGED <<rleVars, compVars>>

(***************************************************************************)
(* Inputs of processFrame                                                  *)
(***************************************************************************)
Thresholds == {64, 128}

\* sides of the source bitmaps: powers of two, for which the quotients
\* width / sourceWidth and height / sourceHeight of processFrame, and the
\* offsets and source coordinates computed from them, are exact in the
\* double-precision arithmetic of the code
SrcSides == {2 ^ e : e \in 0..MaxSrcExp}

\* bitmaps whose texels all differ: the colour tells the coordinates
CoordColour(x, y) == <<60 * (x + 1), 60 * (y + 1), 0, 255>>
CoordBitmap(w, h) ==
    [width |-> w, height |-> h,
     data |-> [p \in 1..(w * h) |-> CoordColour((p - 1) % w, (p - 1) \div w)]]
CoordBitmaps == {CoordBitmap(w, h) : w \in SrcSides, h \in SrcSides}

\* small bitmaps with every pixel free over the palette
FramePalette == {Transparent, Black, Red, White}
PaletteBitmaps ==
    {b \in [width : SrcSides, height : SrcSides,
            data : SeqsUpTo(FramePalette, MaxPalettePixels)] :
        Len(b.data) = b.width * b.height}

OptionSets ==
    {o \in [width : 1..MaxW, height : 1..MaxH, threshold : Thresholds,
            invert : BOOLEAN, dither : BOOLEAN, fit : FitModes] :
        o.dither => o.width * o.height <= MaxDitherPixels}

\* a bitmap of the target's own size with a single white pixel on black
SingleLit(w, h, lx, ly) ==
    [width |-> w, height |-> h,
     data |-> [p \in 1..(w * h) |->
                 IF (p - 1) % w = lx /\ (p - 1) \div w = ly THEN White ELSE Black]]

InitFrameVars ==
    /\ targetData = <<>>
    /\ grayBuffer = <<>>
    /\ ssd1306Buffer = <<>>
    /\ idx = 0
    /\ processedFrames = <<>>

\* any small bitmap under any options
InitFrameSmall ==
    /\ frameImageData \in CoordBitmaps \cup PaletteBitmaps
    /\ options \in OptionSets

\* a single lit pixel in a bitmap of the target's size
InitFrameSingleLit ==
    /\ options \in OptionSets
    /\ \E lx \in 0..(options.width - 1), ly \in 0..(options.height - 1) :
          frameImageData = SingleLit(options.width, options.height, lx, ly)

\* the packing example of the specification: pixel (3, 10) of a 16 x 16 target
InitFrameExample ==
    /\ frameImageData = SingleLit(16, 16, 3, 10)
    /\ options \in [width : {16}, height : {16}, threshold : {128},
                    invert : {FALSE}, dither : BOOLEAN, fit : FitModes]

\* a column of opaque texels, none black, whose colour tells the row
RowColour(y) == <<255, (20 * (y + 1)) % 256, 0, 255>>
ColumnBitmap(h) ==
    [width |-> 1, height |-> h, data |-> [p \in 1..h |-> RowColour(p - 1)]]

\* a source column of any height resampled to a target column of any height:
\* scales height / sourceHeight that are not exact in double precision
InitFrameColumn ==
    /\ \E h \in 1..MaxColumnSrc : frameImageData = ColumnBitmap(h)
    /\ options \in [width : {1}, height : 1..MaxColumnTarget, threshold : {128},
                    invert : {FALSE}, dither : {FALSE}, fit : FitModes]

\* a source column of 47 texels resampled to a target two pixels wide and
\* three high: the contain scale 3 / 47 is not exact in double precision
InitFrameTall ==
    /\ frameImageData = ColumnBitmap(47)
    /\ options \in [width : {2}, height : {3}, threshold : {128},
                    invert : {FALSE}, dither : {FALSE}, fit : FitModes]

InitFrame ==
    /\ pc = "resample"
    /\ \/ InitFrameSmall
       \/ InitFrameSingleLit
       \/ InitFrameExample
       \/ InitFrameColumn
       \/ InitFrameTall
    /\ InitFrameVars
    /\ IdleRLE
    /\ IdleCompose
    /\ rendered = NoRender

NextFrame ==
    \/ FrameResample
    \/ FrameGray
    \/ QuantizePixel
    \/ FrameReturn

SpecFrame == InitFrame /\ [][NextFrame]_vars

(***************************************************************************)
(* Claims about the compositor (under SpecCompose)                         *)
(***************************************************************************)
\* number of patch frames consumed so far
Consumed == Len(rawFrames)

CanvasPixels == 1..(gifWidth * gifHeight)

\* pixel p of the canvas lies in the patch rectangle of frame n
InPatchRect(p, n) ==
    InRect((p - 1) % gifWidth, (p - 1) \div gifWidth, rawFrames[n].dims)

\* frame n draws nothing: every pixel of its patch is transparent
DrawsNothing(n) ==
    \A j \in 1..Len(rawFrames[n].patch) : rawFrames[n].patch[j][4] = 0

\* C6: RestoreBackground. After a frame with disposalType 2 is emitted the
\* canvas is that frame's output with exactly the pixels of its patch rectangle
\* cleared to transparent zero; and when the next frame draws nothing, its
\* output shows the rectangle cleared and the rest as in the previous output.
C6_RestoreBackground ==
    /\ (Consumed >= 1 /\ rawFrames[Consumed].disposalType = 2) =>
          \A p \in CanvasPixels :
              canvas[p] = IF InPatchRect(p, Consumed)
                          THEN Transparent
                          ELSE frames[Consumed].data[p]
    /\ \A n \in 1..(Consumed - 1) :
          (rawFrames[n].disposalType = 2 /\ DrawsNothing(n + 1)) =>
              \A p \in CanvasPixels :
                  frames[n + 1].data[p] = IF InPatchRect(p, n)
                                          THEN Transparent
                                          ELSE frames[n].data[p]

\* a frame with disposalType 2 showed opaque pixels inside and outside its
\* rectangle, and the next frame, drawing nothing, shows the inside cleared and
\* the outside kept
C6_Witness ==
    /\ Consumed = 3
    /\ rawFrames[2].disposalType = 2
    /\ DrawsNothing(3)
    /\ \E p, q \in CanvasPixels :
          /\ InPatchRect(p, 2) /\ frames[2].data[p] = White
          /\ frames[3].data[p] = Transparent
          /\ ~InPatchRect(q, 2) /\ frames[2].data[q] = White
          /\ frames[3].data[q] = White

\* C7: RestorePrevious. For a frame N that is not the first and has
\* disposalType 3, the canvas on which frame N+1 is drawn is the canvas as it
\* was before patch N was drawn; so when frame N-1 has disposal 1, frame N
\* disposal 3 and frame N+1 draws nothing, output N+1 equals output N-1.
C7_RestorePrevious ==
    /\ (Consumed >= 2 /\ rawFrames[Consumed].disposalType = 3) =>
          canvas = befores[Consumed]
    /\ \A n \in 2..(Consumed - 1) :
          rawFrames[n].disposalType = 3 => befores[n + 1] = befores[n]
    /\ \A n \in 2..(Consumed - 1) :
          (/\ rawFrames[n - 1].disposalType = 1
           /\ rawFrames[n].disposalType = 3
           /\ DrawsNothing(n + 1)) => frames[n + 1] = frames[n - 1]

\* frame 1 (disposal 1) drew A, frame 2 (disposal 3) drew a visible B, frame 3
\* drew nothing and its output is frame 1's
C7_Witness ==
    /\ Consumed = 3
    /\ rawFrames[1].disposalType = 1
    /\ rawFrames[2].disposalType = 3
    /\ DrawsNothing(3)
    /\ \E p \in CanvasPixels : frames[1].data[p] = White
    /\ frames[2] # frames[1]
    /\ frames[3] = frames[1]

\* C8 as stated: a first frame with disposalType 3 is treated as "do not
\* dispose": its patch stays on the canvas and shows in the second output
\* wherever the second patch does not cover it.
C8_FirstRestoreIsNone ==
    /\ (Consumed = 1 /\ rawFrames[1].disposalType = 3) =>
          canvas = frames[1].data
    /\ (Consumed >= 2 /\ rawFrames[1].disposalType = 3) =>
          \A p \in CanvasPixels :
              ~InPatchRect(p, 2) => frames[2].data[p] = frames[1].data[p]

\* C8 amended: after a first frame with disposalType 3 the canvas is restored
\* to its state before that frame, the blank canvas; the first patch shows in
\* the first output only, and the second output is transparent wherever the
\* second patch does not cover it.
C8_FirstRestoreIsBlank ==
    /\ (Consumed = 1 /\ rawFrames[1].disposalType = 3) =>
          \A p \in CanvasPixels : canvas[p] = Transparent
    /\ (Consumed >= 2 /\ rawFrames[1].disposalType = 3) =>
          \A p \in CanvasPixels :
              ~InPatchRect(p, 2) => frames[2].data[p] = Transparent

\* the first frame, with disposalType 3, showed an opaque pixel that the
\* second patch does not cover, and the second output does not show it
C8_Witness ==
    /\ Consumed = 2
    /\ rawFrames[1].disposalType = 3
    /\ \E p \in CanvasPixels :
          /\ ~InPatchRect(p, 2)
          /\ frames[1].data[p] = White
          /\ frames[2].data[p] = Transparent

\* the pixel of patch n that is drawn on canvas pixel p of its rectangle
PatchPixelAt(p, n) ==
    LET d == rawFrames[n].dims
    IN rawFrames[n].patch[PixelIndex(((p - 1) % gifWidth) - d.left,
                                     ((p - 1) \div gifWidth) - d.top, d.width)]

\* C13 as stated: the blit overwrites. After patch N is drawn, every canvas
\* pixel inside the patch rectangle (clipped to the canvas) equals the patch
\* pixel, also where the patch pixel is transparent; there is no blending.
C13_BlitOverwrites ==
    \A n \in 1..Len(rawFrames) : \A p \in CanvasPixels :
        InPatchRect(p, n) => frames[n].data[p] = PatchPixelAt(p, n)

\* C13 amended: after patch N is drawn, every canvas pixel inside the patch
\* rectangle (clipped to the canvas) equals the patch pixel where the patch
\* pixel is opaque, and keeps its value from before the blit where the patch
\* pixel is fully transparent; pixels outside the rectangle keep their value.
C13_BlitDrawsOpaquePixels ==
    \A n \in 1..Len(rawFrames) : \A p \in CanvasPixels :
        frames[n].data[p] =
            IF InPatchRect(p, n) /\ PatchPixelAt(p, n)[4] = 255
            THEN PatchPixelAt(p, n)
            ELSE befores[n][p]

\* a patch was drawn that has a transparent pixel over a painted canvas pixel,
\* which kept its colour, and an opaque pixel, which replaced the canvas pixel
C13_Witness ==
    \E n \in 1..Len(rawFrames) :
        /\ \E p \in CanvasPixels :
              /\ InPatchRect(p, n)
              /\ PatchPixelAt(p, n) = Transparent
              /\ befores[n][p] = White
              /\ frames[n].data[p] = White
        /\ \E p \in CanvasPixels :
              /\ InPatchRect(p, n)
              /\ PatchPixelAt(p, n) = White
              /\ befores[n][p] = Transparent
              /\ frames[n].data[p] = White

\* C14: disposal comes strictly after emission. The bitmap emitted for patch
\* N is the canvas as it is when patch N has been blitted, whatever the
\* disposal mode; the disposal of frame N acts on the canvas after that
\* capture; and no later step (disposal of N, blit or disposal of a later
\* frame) changes a bitmap already emitted.
C14_DisposalAfterEmission ==
    /\ [](\A n \in 1..Len(rawFrames) :
            frames[n].data = DrawPatch(befores[n], gifWidth, gifHeight, rawFrames[n]))
    /\ [][/\ Len(frames') >= Len(frames)
          /\ \A n \in 1..Len(frames) : frames'[n] = frames[n]
          /\ Len(rawFrames') = Len(rawFrames) + 1 =>
                LET n == Len(rawFrames')
                IN canvas' = Dispose(frames'[n].data, gifWidth, gifHeight,
                                     rawFrames'[n],
                                     Backup(canvas, gifWidth, gifHeight,
                                            rawFrames'[n].disposalType))]_vars

\* a frame disposed to background was emitted with its painted pixel, the
\* canvas was cleared afterwards, and a later frame has painted the pixel again
C14_Witness ==
    /\ Len(rawFrames) >= 2
    /\ rawFrames[1].disposalType = 2
    /\ \E p \in CanvasPixels :
          /\ frames[1].data[p] = White
          /\ befores[2][p] = Transparent
          /\ canvas[p] = White

(***************************************************************************)
(* Claims about processFrame, checked under SpecFrame                      *)
(***************************************************************************)
\* the frame processFrame returned
Returned == processedFrames[1]

\* target pixel (x, y) of the returned preview is lit
Lit(x, y) == Returned.preview.data[y * options.width + x + 1][1] = 255

\* bit b of byte j of the returned buffer exists and is 1
BitIsSet(j, b) ==
    /\ j < Len(Returned.pixels)
    /\ (Returned.pixels[j + 1] \div (2 ^ b)) % 2 = 1

\* C4: for every target width W >= 1 and height H >= 1, W * H a multiple of 8
\* or not, the packed buffer returned by processFrame has length exactly
\* ceil(W * H / 8).
C4_PackedLengthIsCeil ==
    pc = "frame_done" =>
        Len(Returned.pixels) = (options.width * options.height + 7) \div 8

\* C5: packing layout. In the returned buffer, bit (y mod 8) of byte
\* floor(y / 8) * W + x is 1 exactly when target pixel (x, y) is lit, every
\* other bit is 0, and distinct pixels map to distinct (byte, bit) positions.
C5_PackingLayout ==
    pc = "frame_done" =>
        LET W == options.width
            H == options.height
        IN /\ \A x \in 0..(W - 1), y \in 0..(H - 1) :
                 Lit(x, y) <=> BitIsSet((y \div 8) * W + x, y % 8)
           /\ \A j \in 0..(Len(Returned.pixels) - 1), b \in 0..7 :
                 BitIsSet(j, b) =>
                    \E x \in 0..(W - 1), y \in 0..(H - 1) :
                        /\ Lit(x, y)
                        /\ (y \div 8) * W + x = j
                        /\ y % 8 = b
           /\ \A x1 \in 0..(W - 1), y1 \in 0..(H - 1),
                 x2 \in 0..(W - 1), y2 \in 0..(H - 1) :
                 (/\ (y1 \div 8) * W + x1 = (y2 \div 8) * W + x2
                  /\ y1 % 8 = y2 % 8) => (x1 = x2 /\ y1 = y2)

\* The contain scale min(W / srcW, H / srcH) as a fraction num / den.
ContainNum ==
    IF options.width * frameImageData.height <= options.height * frameImageData.width
    THEN options.width ELSE options.height
ContainDen ==
    IF options.width * frameImageData.height <= options.height * frameImageData.width
    THEN frameImageData.width ELSE frameImageData.height

\* offset <= c < offset + srcLen * scale on one axis, with
\* offset = (target - srcLen * scale) / 2, every term multiplied by 2 * den
InsideAxis(c, target, srcLen) ==
    /\ target * ContainDen - srcLen * ContainNum <= 2 * ContainDen * c
    /\ 2 * ContainDen * c < target * ContainDen + srcLen * ContainNum

\* floor((c - offset) / scale) = t on one axis:
\* offset + t * scale <= c < offset + (t + 1) * scale
InTexelBand(c, t, target, srcLen) ==
    /\ target * ContainDen - srcLen * ContainNum + 2 * ContainNum * t
          <= 2 * ContainDen * c
    /\ 2 * ContainDen * c
          < target * ContainDen - srcLen * ContainNum + 2 * ContainNum * (t + 1)

\* target pixel (x, y) lies in the centered scaled rectangle
InsideRect(x, y) ==
    /\ InsideAxis(x, options.width, frameImageData.width)
    /\ InsideAxis(y, options.height, frameImageData.height)

\* the sampling loop has run with the contain fit
Contained == pc = "gray" /\ options.fit = "contain"

\* every pixel outside the rectangle is the padding, every pixel inside it is
\* the source texel (floor((x - offsetX) / scale), floor((y - offsetY) / scale))
ContainPadsOutsideCopiesInside ==
    \A x \in 0..(options.width - 1), y \in 0..(options.height - 1) :
        LET px == targetData[y * options.width + x + 1]
        IN /\ ~InsideRect(x, y) => px = Padding
           /\ \A tx \in 0..(frameImageData.width - 1),
                 ty \in 0..(frameImageData.height - 1) :
                 (/\ InTexelBand(x, tx, options.width, frameImageData.width)
                  /\ InTexelBand(y, ty, options.height, frameImageData.height))
                 => px = frameImageData.data[ty * frameImageData.width + tx + 1]
           /\ InsideRect(x, y) =>
                 \E tx \in 0..(frameImageData.width - 1),
                    ty \in 0..(frameImageData.height - 1) :
                    /\ InTexelBand(x, tx, options.width, frameImageData.width)
                    /\ InTexelBand(y, ty, options.height, frameImageData.height)

\* C10: contain fit. A target pixel is opaque black (0, 0, 0, 255)
\* exactly when it lies outside the centered scaled rectangle, and every pixel
\* inside the rectangle is the source texel it maps to.
C10_ContainBlackExactlyOutside ==
    Contained =>
        /\ ContainPadsOutsideCopiesInside
        /\ \A x \in 0..(options.width - 1), y \in 0..(options.height - 1) :
              targetData[y * options.width + x + 1] = Padding => ~InsideRect(x, y)

\* C16: the bounds check of the packer never fails. For every target size
\* W >= 1, H >= 1 and every pixel (x, y) of it, the byte index
\* floor(y / 8) * W + x is smaller than the length of the packed buffer, so no
\* lit pixel is dropped from the packed frame.
C16_BoundsCheckNeverFails ==
    pc \in {"quantize", "frame_done"} =>
        \A x \in 0..(options.width - 1), y \in 0..(options.height - 1) :
            (y \div 8) * options.width + x < Len(ssd1306Buffer)

\* C17: the returned preview has exactly W * H pixels, each (v, v, v, 255)
\* with v 0 or 255, in threshold and in dither mode, and agrees with the packed
\* frame: v = 255 exactly when the bit of that pixel is set in the buffer.
C17_PreviewAgreesWithPacked ==
    pc = "frame_done" =>
        /\ Returned.preview.width = options.width
        /\ Returned.preview.height = options.height
        /\ Len(Returned.preview.data) = options.width * options.height
        /\ \A x \in 0..(options.width - 1), y \in 0..(options.height - 1) :
              \E v \in {0, 255} :
                 /\ Returned.preview.data[y * options.width + x + 1] = <<v, v, v, 255>>
                 /\ v = 255 <=> BitIsSet((y \div 8) * options.width + x, y % 8)

\* the quantizer loop is running, or has run, in threshold mode
Thresholding == pc = "quantize" /\ ~options.dither

\* the luminance 0.299 R + 0.587 G + 0.114 B of a pixel is below the threshold
\* (both sides times 1000)
BelowThreshold(px) ==
    299 * px[1] + 587 * px[2] + 114 * px[3] < 1000 * options.threshold

\* the bit of a pixel in threshold mode: 0 below the threshold, else 1, and
\* flipped when invert is set
ThresholdBit(px) ==
    LET bit == IF BelowThreshold(px) THEN 0 ELSE 1
    IN IF options.invert THEN 1 - bit ELSE bit

\* C18: threshold mode. The bit of each pixel depends only on the luminance
\* gray = 0.299 R + 0.587 G + 0.114 B of that pixel of the resampled bitmap:
\* it is 0 if gray < threshold, else 1, flipped after thresholding when invert
\* is set. Quantizing a pixel changes no other pixel and no luminance, so no
\* other pixel influences it.
C18_ThresholdPerPixel ==
    /\ [][(pc = "gray" /\ pc' = "quantize" /\ ~options.dither) =>
            \A c \in {targetData[p] : p \in 1..Len(targetData)} :
                \E gray \in {Fround(Luminance(c))} :
                    \A p \in 1..Len(targetData) :
                        targetData[p] = c => grayBuffer'[p] = gray]_vars
    /\ [][(Thresholding /\ idx' = idx + 1) =>
            /\ targetData'[idx + 1] =
                  <<255 * ThresholdBit(targetData[idx + 1]),
                    255 * ThresholdBit(targetData[idx + 1]),
                    255 * ThresholdBit(targetData[idx + 1]), 255>>
            /\ \A q \in 1..(options.width * options.height) :
                  q # idx + 1 => targetData'[q] = targetData[q]
            /\ grayBuffer' = grayBuffer]_vars

\* threshold mode with invert has returned a frame with a pixel lit because
\* its luminance is below the threshold, and a pixel dark because it is not
C18_Witness ==
    /\ pc = "frame_done" /\ ~options.dither /\ options.invert
    /\ \E p \in 1..Len(grayBuffer), q \in 1..Len(grayBuffer) :
          /\ Below(grayBuffer[p], options.threshold)
          /\ targetData[p] = <<255, 255, 255, 255>>
          /\ ~Below(grayBuffer[q], options.threshold)
          /\ targetData[q] = <<0, 0, 0, 255>>

\* the quantizer loop is running in dither mode
Dithering == pc = "quantize" /\ options.dither

\* sixteenths of the error of pixel (x, y) that its neighbour (nx, ny) receives
Sixteenths(nx, ny, x, y) ==
    IF nx = x + 1 /\ ny = y THEN 7
    ELSE IF nx = x - 1 /\ ny = y + 1 THEN 3
    ELSE IF nx = x /\ ny = y + 1 THEN 5
    ELSE IF nx = x + 1 /\ ny = y + 1 THEN 1
    ELSE 0

\* C19: dither mode visits the pixels in raster order and pushes the error
\* v - newBit of each pixel (newBit = 0 if v < threshold else 255) only to its
\* in-bounds neighbours east (7/16), southwest (3/16), south (5/16) and
\* southeast (1/16). These come later in raster order: no pixel at or before
\* the current one is modified, and a neighbour outside the bitmap is skipped,
\* not wrapped to another row.
C19_DitherDiffusesForward ==
    [][(Dithering /\ idx' # idx) =>
          LET W == options.width
              H == options.height
              x == idx % W
              y == idx \div W
              v == grayBuffer[idx + 1]
              newBit == IF Below(v, options.threshold) THEN 0 ELSE 255
              error == QuantError(v, newBit)
          IN /\ idx' = idx + 1
             /\ idx = y * W + x
             /\ targetData'[idx + 1] = <<newBit, newBit, newBit, 255>>
             /\ \A nx \in 0..(W - 1), ny \in 0..(H - 1) :
                   LET q == ny * W + nx + 1
                   IN /\ grayBuffer'[q] =
                           IF Sixteenths(nx, ny, x, y) = 0 THEN grayBuffer[q]
                           ELSE Fround(Sum(grayBuffer[q],
                                           Share(error, Sixteenths(nx, ny, x, y))))
                      /\ grayBuffer'[q] # grayBuffer[q] => q > idx + 1]_vars

\* a pixel at the end of a row has been quantized, and the error of a
\* luminance between the threshold and 255 has driven a neighbour below zero
C19_Witness ==
    /\ pc = "frame_done" /\ options.dither
    /\ options.width = 2 /\ options.height = 2
    /\ \E p \in 1..4 : grayBuffer[p].neg
    /\ \E p \in 1..4 : targetData[p] = <<255, 255, 255, 255>>
    /\ \E p \in 1..4 : targetData[p] = <<0, 0, 0, 255>>

\* the sampling loop has run with a fit that is to fill the whole target
Filled == pc = "gray" /\ options.fit \in {"cover", "stretch"}

\* C11: cover and stretch never pad. For every source and target size, the
\* source coordinates (srcX, srcY) computed for every target pixel lie inside
\* the source, so every target pixel is the texel at (srcX, srcY) and none is
\* the padding.
C11_CoverStretchNeverPad ==
    Filled =>
        LET srcXs == SrcXs(frameImageData, options)
            srcYs == SrcYs(frameImageData, options)
        IN \A x \in 0..(options.width - 1), y \in 0..(options.height - 1) :
              /\ srcXs[x + 1] \in 0..(frameImageData.width - 1)
              /\ srcYs[y + 1] \in 0..(frameImageData.height - 1)
              /\ targetData[y * options.width + x + 1]
                    = frameImageData.data[srcYs[y + 1] * frameImageData.width
                                         + srcXs[x + 1] + 1]

\* processFrame on the same bitmap, size, threshold and fit, invert toggled
Toggled ==
    processFrame(frameImageData, [options EXCEPT !.invert = ~options.invert])

\* the bit of target pixel (x, y) exists in a packed buffer and is 1
PackedBit(pixels, x, y) ==
    /\ (y \div 8) * options.width + x < Len(pixels)
    /\ (pixels[(y \div 8) * options.width + x + 1] \div (2 ^ (y % 8))) % 2 = 1

\* every pixel of the returned frame is the complement of that pixel of
\* `other`, in the packed bits and in the preview
ComplementOf(other) ==
    \A x \in 0..(options.width - 1), y \in 0..(options.height - 1) :
        /\ PackedBit(Returned.pixels, x, y) <=> ~PackedBit(other.pixels, x, y)
        /\ \E v \in {0, 255} :
              /\ Returned.preview.data[y * options.width + x + 1]
                    = <<v, v, v, 255>>
              /\ other.preview.data[y * options.width + x + 1]
                    = <<255 - v, 255 - v, 255 - v, 255>>

\* C26: in threshold mode toggling invert complements the result. For the
\* same bitmap, size, threshold and fit, every pixel's bit of the packed frame
\* with invert set is the negation of its bit without, and the preview
\* values are swapped between 0 and 255.
C26_InvertComplements ==
    (pc = "frame_done" /\ ~options.dither) =>
        \A other \in {Toggled} : ComplementOf(other)

(***************************************************************************)
(* The pipeline of GifConverter: onDrop composes the frames of the dropped *)
(* GIF and stores them, processAllFrames maps processFrame over them with  *)
(* the current settings.                                                   *)
(***************************************************************************)
\* the settings width, height, threshold, invert, dither, fit
Settings ==
    [width : 1..MaxSetting, height : 1..MaxSetting, threshold : {128},
     invert : BOOLEAN, dither : BOOLEAN, fit : FitModes]

\* sourceFrames.map(frame => processFrame(frame, {...}))
MapFrames(src, opts) ==
    [n \in 1..Len(src) |-> processFrame(src[n], opts)] \o <<>>

\* the frame rates the user types
Rates == {15, DefaultFps}

\* generateHeaderFile: the fields of the header text
generateHeaderFile(pixels, w, h, rate, name, compress) ==
    [width |-> w,
     height |-> h,
     frames |-> Len(pixels),
     fps |-> rate,
     name |-> name,
     compression |-> compress,
     data |-> IF compress
              THEN [n \in 1..Len(pixels) |-> compressRLE(pixels[n])]
              ELSE pixels]

\* handleGenerateCode: code after it has run on the state of its render
handleGenerateCode(processed, opts, rate, name, compress, old) ==
    IF Len(processed) = 0
    THEN old
    ELSE <<generateHeaderFile([n \in 1..Len(processed) |-> processed[n].pixels],
                              opts.width, opts.height, rate, name, compress)>>

\* the state hooks of GifConverter, with the updates queued on them
Hooks ==
    [file |-> file, loading |-> loading, sourceFrames |-> sourceFrames,
     options |-> options, fps |-> fps, varName |-> varName,
     useCompression |-> useCompression, processedFrames |-> processedFrames,
     code |-> code, generated |-> generated]

\* the component: its hooks, the debounce timer, the state of its latest
\* render, the arrays set since, and the effects of that render still to run
React ==
    [hooks |-> Hooks, timer |-> timer, rendered |-> rendered, fresh |-> fresh,
     passive |-> passive]

\* the component is left as w
Becomes(w) ==
    /\ file' = w.hooks.file
    /\ loading' = w.hooks.loading
    /\ sourceFrames' = w.hooks.sourceFrames
    /\ options' = w.hooks.options
    /\ fps' = w.hooks.fps
    /\ varName' = w.hooks.varName
    /\ useCompression' = w.hooks.useCompression
    /\ processedFrames' = w.hooks.processedFrames
    /\ code' = w.hooks.code
    /\ generated' = w.hooks.generated
    /\ timer' = w.timer
    /\ rendered' = w.rendered
    /\ fresh' = w.fresh
    /\ passive' = w.passive

\* the effects of GifConverter that change its state: the debounce effect,
\* the regeneration effect and the effect that forces the first generation
EffectNames == {"debounce", "regenerate", "force"}

\* the effects a render runs: those with a dependency that differs from the
\* render before. An array differs when it has been set in between, whatever
\* it holds
Scheduled(before, after, arrays) ==
    {e \in EffectNames :
        \/ /\ e = "debounce"
           /\ \/ "sourceFrames" \in arrays
              \/ before.sourceFrames # after.sourceFrames
              \/ before.options # after.options
        \/ /\ e = "regenerate"
           /\ \/ "processedFrames" \in arrays
              \/ before.processedFrames # after.processedFrames
              \/ before.varName # after.varName
              \/ before.useCompression # after.useCompression
        \/ /\ e = "force"
           /\ \/ before.generated # after.generated
              \/ "processedFrames" \in arrays
              \/ before.processedFrames # after.processedFrames}

\* the regeneration effect on [processedFrames, varName, useCompression],
\* on the state r of its render
Regenerated(r, old) ==
    IF r.generated /\ r.code # NoCode
    THEN handleGenerateCode(r.processedFrames, r.options, r.fps, r.varName,
                            r.useCompression, old)
    ELSE old

\* the effect on [generated, processedFrames] that forces the first
\* generation, on the state r of its render
Forced(r, old) ==
    IF r.generated /\ r.code = NoCode /\ Len(r.processedFrames) > 0
    THEN handleGenerateCode(r.processedFrames, r.options, r.fps, r.varName,
                            r.useCompression, old)
    ELSE old

\* code once the two code effects among `effects` have run
CodeEffects(r, effects, old) ==
    IF "regenerate" \in effects
    THEN IF "force" \in effects
         THEN Forced(r, Regenerated(r, old))
         ELSE Regenerated(r, old)
    ELSE IF "force" \in effects THEN Forced(r, old) ELSE old

\* React runs the effects of the latest render that are still to run, each
\* on the state of that render: setCode queues an update
FlushPassive(w) ==
    [w EXCEPT !.timer = IF "debounce" \in w.passive
                        THEN Debounce(w.rendered.sourceFrames,
                                      w.rendered.options)
                        ELSE @,
              !.hooks.code = CodeEffects(w.rendered, w.passive, @),
              !.passive = {}]

\* the state of the render that follows an event handler: the hooks the
\* handler has set at their new values, the others as rendered before
RenderedSync(w, set) ==
    [file |-> IF "file" \in set THEN w.hooks.file ELSE w.rendered.file,
     loading |-> w.rendered.loading,
     sourceFrames |-> IF "sourceFrames" \in set
                      THEN w.hooks.sourceFrames ELSE w.rendered.sourceFrames,
     options |-> IF "options" \in set
                 THEN w.hooks.options ELSE w.rendered.options,
     fps |-> IF "fps" \in set THEN w.hooks.fps ELSE w.rendered.fps,
     varName |-> IF "varName" \in set
                 THEN w.hooks.varName ELSE w.rendered.varName,
     useCompression |-> IF "useCompression" \in set
                        THEN w.hooks.useCompression
                        ELSE w.rendered.useCompression,
     processedFrames |-> w.rendered.processedFrames,
     code |-> IF "code" \in set THEN w.hooks.code ELSE w.rendered.code,
     generated |-> w.rendered.generated]

\* an event handler of the page has left the component as handled, having
\* set the hooks `set`, the arrays `arrays` among them. Before the event
\* returns React runs the effects still to run, renders, leaving aside the
\* updates queued by timers, promises and effects, and runs the effects of
\* the render
RenderSync(handled, set, arrays) ==
    FlushPassive([FlushPassive(handled) EXCEPT
                     !.rendered = RenderedSync(handled, set),
                     !.passive = Scheduled(handled.rendered,
                                           RenderedSync(handled, set), arrays),
                     !.fresh = @ \ arrays])

\* no callback of the component is running
Idle == pc \in {"ui", "await", "loaded", "thrown", "processed"}

\* React renders the updates queued by timers, promises and effects
Render ==
    /\ Idle
    /\ passive = {}
    /\ rendered # Hooks \/ fresh # {}
    /\ rendered' = Hooks
    /\ passive' = Scheduled(rendered, Hooks, fresh)
    /\ fresh' = {}
    /\ UNCHANGED <<pc, drops, edits, file, loading, timer, code, generated,
                   fps, varName, useCompression>>
    /\ UNCHANGED <<frameImageData, options, targetData, grayBuffer,
                   ssd1306Buffer, idx, processedFrames>>
    /\ UNCHANGED <<gifWidth, gifHeight, rawCount, rawFrames, canvas, frames,
                   befores, sourceFrames, screenWidth, screenHeight,
                   gifFrames>>
    /\ UNCHANGED rleVars

\* React runs the effects of the latest render
Effects ==
    /\ Idle
    /\ passive # {}
    /\ \E w \in {FlushPassive(React)} : Becomes(w)
    /\ UNCHANGED <<pc, drops, edits>>
    /\ UNCHANGED <<frameImageData, targetData, grayBuffer, ssd1306Buffer,
                   idx>>
    /\ UNCHANGED <<gifWidth, gifHeight, rawCount, rawFrames, canvas, frames,
                   befores, screenWidth, screenHeight, gifFrames>>
    /\ UNCHANGED rleVars

\* processAllFrames of the render whose effect set the timer: the frames it
\* hands to setProcessedFrames
processAllFrames(closure) == MapFrames(closure.sourceFrames, closure.options)

\* the callback of the debounce timer: processAllFrames on the source frames
\* and settings of the render that set the timer
ProcessAllFrames ==
    /\ pc = "loaded"
    /\ timer # NoTimer
    /\ timer' = NoTimer
    /\ processedFrames' = processAllFrames(timer[1])
    /\ fresh' = fresh \cup {"processedFrames"}
    /\ generated' = TRUE
    /\ pc' = "processed"
    /\ UNCHANGED <<frameImageData, options, targetData, grayBuffer,
                   ssd1306Buffer, idx>>
    /\ UNCHANGED <<gifWidth, gifHeight, rawCount, rawFrames, canvas, frames,
                   befores, sourceFrames, screenWidth, screenHeight,
                   gifFrames>>
    /\ UNCHANGED <<drops, edits, file, loading, code, fps, varName,
                   useCompression, rendered, passive>>
    /\ UNCHANGED rleVars

\* the canvas size onDrop falls back to when the GIF has no frame, or a first
\* frame with a side of zero
DefaultWidth == 128
DefaultHeight == 64

\* rawFrames[0]?.dims.width || 128, rawFrames[0]?.dims.height || 64
FirstFrameWidth(fs) ==
    IF Len(fs) > 0 /\ fs[1].dims.width # 0 THEN fs[1].dims.width ELSE DefaultWidth
FirstFrameHeight(fs) ==
    IF Len(fs) > 0 /\ fs[1].dims.height # 0 THEN fs[1].dims.height ELSE DefaultHeight

\* the file dropped in the pipeline
DroppedFile == 1

\* onDrop up to the await: the file, the loading flag and the generated flag
\* are set, and loadGifFrames(f) is pending
OnDrop ==
    /\ pc = "drop"
    /\ drops' = Append(drops, [file |-> DroppedFile, at |-> "loading"])
    /\ file' = <<DroppedFile>>
    /\ loading' = TRUE
    /\ generated' = FALSE
    /\ pc' = "await"
    /\ UNCHANGED <<edits, timer, code, fps, varName, useCompression, rendered,
                   fresh, passive>>
    /\ UNCHANGED <<gifWidth, gifHeight, rawCount, rawFrames, canvas, frames,
                   befores, sourceFrames, screenWidth, screenHeight,
                   gifFrames>>
    /\ UNCHANGED <<rleVars, frameVars>>

\* onDrop from the await to the call of extractComposedFrames(rawFrames, w,
\* h), and the entry of extractComposedFrames: the canvas takes the size of
\* the first patch frame
OnLoaded ==
    /\ pc = "await"
    /\ gifWidth' = FirstFrameWidth(gifFrames)
    /\ gifHeight' = FirstFrameHeight(gifFrames)
    /\ rawCount' = Len(gifFrames)
    /\ canvas' = BlankCanvas(gifWidth', gifHeight')
    /\ pc' = "compose"
    /\ UNCHANGED <<rawFrames, frames, befores, sourceFrames, screenWidth,
                   screenHeight, gifFrames>>
    /\ UNCHANGED <<rleVars, frameVars, uiVars>>

\* GIFs with a patch frame of no pixels, first or after a frame of one pixel
EmptyPatchGifs ==
    {<<EmptyPatch>>} \cup {<<f, EmptyPatch>> : f \in PatchesOn(1, 1)}

InitPipeline ==
    /\ pc = "drop"
    /\ screenWidth \in SrcSides
    /\ screenHeight \in SrcSides
    /\ screenWidth * screenHeight <= SmallArea
    /\ \/ \E n \in 0..FrameLimit(screenWidth, screenHeight,
                                  MaxRuns \div Cardinality(Settings)) :
             gifFrames \in [1..n -> PatchesOn(screenWidth, screenHeight)]
       \/ /\ screenWidth * screenHeight = 1
          /\ gifFrames \in EmptyPatchGifs
    /\ gifWidth = 0
    /\ gifHeight = 0
    /\ rawCount = 0
    /\ rawFrames = <<>>
    /\ canvas = <<>>
    /\ frames = <<>>
    /\ befores = <<>>
    /\ sourceFrames = <<>>
    /\ Mounted
    /\ options \in Settings
    /\ frameImageData = <<>>
    /\ InitFrameVars
    /\ IdleRLE
    /\ rendered = Hooks

NextPipeline ==
    \/ OnDrop
    \/ OnLoaded
    \/ ComposeFrame
    \/ ComposeThrows
    \/ ComposeReturn
    \/ ProcessAllFrames
    \/ Render
    \/ Effects

SpecPipeline == InitPipeline /\ [][NextPipeline]_vars

(***************************************************************************)
(* GifConverter: the callbacks of the mounted component. An event handler  *)
(* of the page runs together with the render that follows it and the       *)
(* effects of that render. The updates queued by a timer callback, by the  *)
(* continuation of an await or by an effect are rendered in a later task,  *)
(* and the effects of that render run in a task after it; an await splits  *)
(* onDrop in two.                                                          *)
(***************************************************************************)
\* the files the user has at hand
Files == 1..MaxFiles

\* the variable names the user types
Names == {DefaultName, "animation"}

\* the pixel of patch frame n of the GIF in file f
FileColour(f, n) == IF (f + n) % 2 = 0 THEN White ELSE Black

\* await loadGifFrames(f): the patch frames of the GIF in file f, opaque
\* 1 x 1 patches; files with an odd number hold one frame, the others two
loadGifFrames(f) ==
    [n \in 1..(2 - (f % 2)) |->
        [dims |-> [left |-> 0, top |-> 0, width |-> 1, height |-> 1],
         disposalType |-> 1 + (n % 2),
         patch |-> <<FileColour(f, n)>>]]

\* the canvas and the frame list before rawFrames.forEach
ComposedNone(w, h) == [canvas |-> BlankCanvas(w, h), frames |-> <<>>]

\* one iteration of rawFrames.forEach on the canvas and the frame list of st
ComposedOne(st, w, h, frame) ==
    [canvas |-> Dispose(DrawPatch(st.canvas, w, h, frame), w, h, frame,
                        Backup(st.canvas, w, h, frame.disposalType)),
     frames |-> Emitted(st.frames,
                        Captured(DrawPatch(st.canvas, w, h, frame) \o <<>>,
                                 Dispose(DrawPatch(st.canvas, w, h, frame),
                                         w, h, frame,
                                         Backup(st.canvas, w, h,
                                                frame.disposalType))),
                        w, h)]

\* rawFrames.forEach from frame n on
RECURSIVE ComposedFrom(_, _, _, _, _)
ComposedFrom(raw, w, h, st, n) ==
    IF n > Len(raw)
    THEN st
    ELSE ComposedFrom(raw, w, h, ComposedOne(st, w, h, raw[n]), n + 1)

\* the outcome of a call that throws: no value (the outcome of a call that
\* returns is a sequence of one element, the value)
Thrown == <<>>

\* extractComposedFrames(rawFrames, w, h): one bitmap per patch frame, unless
\* new ImageData throws on one of them
extractComposedFrames(raw, w, h) ==
    IF \E n \in 1..Len(raw) : ImageDataThrows(raw[n])
    THEN Thrown
    ELSE <<ComposedFrom(raw, w, h, ComposedNone(w, h), 1).frames>>

\* onDrop after the await: w and h of the first frame, then the composition
Composed(raw) ==
    extractComposedFrames(raw, FirstFrameWidth(raw), FirstFrameHeight(raw))

\* the state no callback of GifConverter touches
offStage == <<pc, rleVars, gifWidth, gifHeight, rawCount, rawFrames, canvas,
              frames, befores, screenWidth, screenHeight, gifFrames,
              frameImageData, targetData, grayBuffer, ssd1306Buffer, idx>>

\* onDrop up to the await: the file, the loading flag and the generated flag
\* are set, and loadGifFrames is pending
DropFile ==
    /\ pc = "ui"
    /\ Len(drops) < MaxDrops
    /\ \E f \in Files :
         /\ drops' = Append(drops, [file |-> f, at |-> "loading"])
         /\ file' = <<f>>
    /\ loading' = TRUE
    /\ generated' = FALSE
    /\ UNCHANGED <<edits, timer, code, fps, varName, useCompression,
                   sourceFrames, options, processedFrames, rendered, fresh,
                   passive>>
    /\ UNCHANGED offStage

\* onDrop from the await on, the load having succeeded: the frames are
\* composed and handed to setSourceFrames, or the composition throws and the
\* catch block alerts; the finally block clears the loading flag
LoadSettles ==
    /\ pc = "ui"
    /\ \E n \in 1..Len(drops) :
         /\ drops[n].at = "loading"
         /\ \E composed \in {Composed(loadGifFrames(drops[n].file))} :
               IF composed = Thrown
               THEN /\ drops' = [drops EXCEPT ![n].at = "failed"]
                    /\ UNCHANGED <<sourceFrames, fresh>>
               ELSE /\ drops' = [drops EXCEPT ![n].at = "done"]
                    /\ sourceFrames' = composed[1]
                    /\ fresh' = fresh \cup {"sourceFrames"}
    /\ loading' = FALSE
    /\ UNCHANGED <<edits, file, timer, code, generated, fps, varName,
                   useCompression, options, processedFrames, rendered,
                   passive>>
    /\ UNCHANGED offStage

\* onDrop from the await on, the load having thrown: the catch block alerts,
\* the finally block clears the loading flag
LoadFails ==
    /\ pc = "ui"
    /\ \E n \in 1..Len(drops) :
         /\ drops[n].at = "loading"
         /\ drops' = [drops EXCEPT ![n].at = "failed"]
    /\ loading' = FALSE
    /\ UNCHANGED <<edits, file, timer, code, generated, fps, varName,
                   useCompression, sourceFrames, options, processedFrames,
                   rendered, fresh, passive>>
    /\ UNCHANGED offStage

\* the debounce timer fires after 500 ms: processAllFrames of the render
\* whose effect set it
TimerFires ==
    /\ pc = "ui"
    /\ timer # NoTimer
    /\ timer' = NoTimer
    /\ IF Len(timer[1].sourceFrames) = 0
       THEN UNCHANGED <<processedFrames, fresh, generated>>
       ELSE /\ processedFrames' = processAllFrames(timer[1])
            /\ fresh' = fresh \cup {"processedFrames"}
            /\ generated' = TRUE
    /\ UNCHANGED <<drops, edits, file, loading, code, fps, varName,
                   useCompression, sourceFrames, options, rendered, passive>>
    /\ UNCHANGED offStage

\* an event handler of the page has left the component as handled, having
\* set the hooks `set`, the arrays `arrays` among them: the render and the
\* effects that follow
Handled(handled, set, arrays) ==
    /\ \E w \in {RenderSync(handled, set, arrays)} : Becomes(w)
    /\ UNCHANGED drops
    /\ UNCHANGED offStage

\* a change of a setting, of which the user makes at most MaxEdits
Edit ==
    /\ pc = "ui"
    /\ edits < MaxEdits
    /\ edits' = edits + 1

\* onChange of the width input
SetWidth ==
    /\ Edit
    /\ \E w \in 1..MaxSetting :
         /\ w # options.width
         /\ Handled([React EXCEPT !.hooks.options.width = w], {"options"}, {})

\* onChange of the height input
SetHeight ==
    /\ Edit
    /\ \E h \in 1..MaxSetting :
         /\ h # options.height
         /\ Handled([React EXCEPT !.hooks.options.height = h], {"options"}, {})

\* onChange of the threshold slider
SetThreshold ==
    /\ Edit
    /\ \E t \in Thresholds :
         /\ t # options.threshold
         /\ Handled([React EXCEPT !.hooks.options.threshold = t], {"options"},
                    {})

\* onChange of the frame rate input
SetFps ==
    /\ Edit
    /\ \E rate \in Rates :
         /\ rate # fps
         /\ Handled([React EXCEPT !.hooks.fps = rate], {"fps"}, {})

\* onClick of one of the three fit buttons
SetFit ==
    /\ Edit
    /\ \E f \in FitModes :
         /\ f # options.fit
         /\ Handled([React EXCEPT !.hooks.options.fit = f], {"options"}, {})

\* onChange of the invert checkbox
SetInvert ==
    /\ Edit
    /\ Handled([React EXCEPT !.hooks.options.invert = ~@], {"options"}, {})

\* onChange of the dither checkbox
SetDither ==
    /\ Edit
    /\ Handled([React EXCEPT !.hooks.options.dither = ~@], {"options"}, {})

\* onChange of the variable name input
SetVarName ==
    /\ Edit
    /\ \E name \in Names :
         /\ name # varName
         /\ Handled([React EXCEPT !.hooks.varName = name], {"varName"}, {})

\* onChange of the compression checkbox
SetUseCompression ==
    /\ Edit
    /\ Handled([React EXCEPT !.hooks.useCompression = ~@],
                 {"useCompression"}, {})

\* onClick of the regenerate button: handleGenerateCode of the latest render,
\* which returns at once when that render has no processed frames
ClickGenerate ==
    /\ pc = "ui"
    /\ UNCHANGED edits
    /\ IF Len(rendered.processedFrames) = 0
       THEN UNCHANGED <<drops, offStage, file, loading, sourceFrames, options,
                        fps, varName, useCompression, processedFrames, code,
                        generated, timer, rendered, fresh, passive>>
       ELSE Handled([React EXCEPT !.hooks.code =
                        handleGenerateCode(rendered.processedFrames,
                                           rendered.options, rendered.fps,
                                           rendered.varName,
                                           rendered.useCompression, @)],
                    {"code"}, {})

\* onClick of the remove button, shown while the render has a file
RemoveFile ==
    /\ pc = "ui"
    /\ rendered.file # NoFile
    /\ UNCHANGED edits
    /\ Handled([React EXCEPT !.hooks.file = NoFile,
                             !.hooks.sourceFrames = <<>>,
                             !.hooks.code = NoCode],
               {"file", "sourceFrames", "code"}, {"sourceFrames"})

\* the settings of the component as mounted, at the smallest size
MountedSettings ==
    {s \in Settings : /\ s.width = 1 /\ s.height = 1 /\ s.threshold = 128
                      /\ ~s.invert /\ s.dither /\ s.fit = "cover"}

InitConverter ==
    /\ pc = "ui"
    /\ IdleRLE
    /\ IdleCompose
    /\ options \in MountedSettings
    /\ frameImageData = <<>>
    /\ InitFrameVars
    /\ rendered = Hooks

NextConverter ==
    \/ DropFile
    \/ LoadSettles
    \/ LoadFails
    \/ TimerFires
    \/ Render
    \/ Effects
    \/ SetWidth
    \/ SetHeight
    \/ SetThreshold
    \/ SetFps
    \/ SetFit
    \/ SetInvert
    \/ SetDither
    \/ SetVarName
    \/ SetUseCompression
    \/ ClickGenerate
    \/ RemoveFile

SpecConverter == InitConverter /\ [][NextConverter]_vars

\* every call of onDrop has settled, the latest one with its frames loaded,
\* the file has not been removed since, and every update has been rendered
\* and every effect run
LatestLoaded ==
    /\ pc = "ui"
    /\ Len(drops) >= 2
    /\ \A n \in 1..Len(drops) : drops[n].at # "loading"
    /\ drops[Len(drops)].at = "done"
    /\ file = <<drops[Len(drops)].file>>
    /\ rendered = Hooks
    /\ fresh = {}
    /\ passive = {}

\* C22: results of a superseded source are discarded. When a second file is
\* dropped while the load of the first is pending, then in whatever order the
\* two loads complete, once both have settled the source frames, and with
\* them the frames the pending processing will use, are those of the second,
\* most recently dropped file.
C22_SupersededSourceDiscarded ==
    LatestLoaded =>
        /\ <<sourceFrames>> = Composed(loadGifFrames(drops[Len(drops)].file))
        /\ timer # NoTimer => timer[1].sourceFrames = sourceFrames

\* C27: the header's metadata matches its data. Whenever a header is
\* generated (by the effects after processing, by the regenerate button, or
\* by a change of variable name or compression, also while a change of width
\* or height waits in the debounce timer), the width and height written into
\* it are those at which the frames it emits, the processed frames of the
\* render that generates it, were packed.
C27_HeaderMatchesData ==
    [][(pc = "ui" /\ code' # NoCode /\ code' # code) =>
          \A n \in 1..Len(rendered'.processedFrames) :
             /\ code'[1].width = rendered'.processedFrames[n].preview.width
             /\ code'[1].height = rendered'.processedFrames[n].preview.height]_vars

Init ==
    \/ InitRLE
    \/ InitCompose
    \/ InitFrame
    \/ InitPipeline
    \/ InitConverter

Next ==
    \/ NextRLE
    \/ NextWide
    \/ NextCompose
    \/ NextFrame
    \/ NextPipeline
    \/ NextConverter

Spec == Init /\ [][Next]_vars

\* C9: extractComposedFrames returns exactly one bitmap per input patch frame,
\* in input order: output n is the canvas as seen when patch n has been drawn,
\* whatever the mix of disposal modes; and processAllFrames yields one
\* processed frame per source frame in the same order.
C9_OneFramePerPatchInOrder ==
    /\ Len(frames) = Len(rawFrames)
    /\ \A n \in 1..Len(rawFrames) :
          frames[n] = GetImageData(DrawPatch(befores[n], gifWidth, gifHeight,
                                             rawFrames[n]),
                                   gifWidth, gifHeight)
    /\ pc \in {"loaded", "processed"} =>
          /\ Len(sourceFrames) = rawCount
          /\ sourceFrames = frames
    /\ pc = "processed" =>
          /\ Len(processedFrames) = Len(sourceFrames)
          /\ \A n \in 1..Len(sourceFrames) :
                processedFrames[n] = processFrame(sourceFrames[n], options)

\* C15: the canvas and every emitted bitmap have the width and height of the
\* GIF's logical screen, for every frame, also when the rectangle of the
\* first patch is smaller than the logical screen.
C15_CanvasIsLogicalScreen ==
    \A n \in 1..Len(frames) :
        /\ Len(befores[n]) = screenWidth * screenHeight
        /\ frames[n].width = screenWidth
        /\ frames[n].height = screenHeight
        /\ Len(frames[n].data) = screenWidth * screenHeight

\* two patch frames with different disposal modes were composed into two
\* different bitmaps, and processed into two different frames
C9_Witness ==
    /\ pc = "processed"
    /\ Len(rawFrames) = 2
    /\ rawFrames[1].disposalType # rawFrames[2].disposalType
    /\ frames[1] # frames[2]
    /\ processedFrames[1] # processedFrames[2]

====
